---- MODULE Spec2Model ----
(***************************************************************************)
(* The NftZk module (privacy-preserving NFT ledger): the four ledger maps, *)
(* the witness-supplied secrets of every caller, and one action per        *)
(* exported circuit.  A circuit is a function from the ledger (and the     *)
(* caller's private state) to either a new ledger or a failure; the        *)
(* execution environment commits the new ledger only when the circuit ran  *)
(* to its end.                                                             *)
(***************************************************************************)
EXTENDS Integers, FiniteSets, Sequences, TLC

VARIABLES tokenOwner, tokenApprovals, ownedTokensCount, operatorApprovals,
          privateState, contractAdmin, currentTokenId, last

vars == <<tokenOwner, tokenApprovals, ownedTokensCount, operatorApprovals,
          privateState, contractAdmin, currentTokenId, last>>

(***************************************************************************)
(* Bounds and value domains                                                *)
(***************************************************************************)

\* Token ids are 0 .. MaxTokenId (Uint<64> in the code; 0 is default<Uint<64>>).
MaxTokenId == 1

TokenIds == 0 .. MaxTokenId

\* Public keys: 0 is default<ZswapCoinPublicKey>; the callers are Alice and Bob.
Alice == 1

Bob == 2

Callers == {Alice, Bob}

PublicKeys == {0} \cup Callers

\* The parties tokens are minted and transferred to.
Recipients == Callers

\* The secret byte strings a private state may hold.
Secrets == {1, 2}

\* Marks a private state field that holds no secret.
NoSecret == 0

(***************************************************************************)
(* Hashing                                                                 *)
(***************************************************************************)

\* A hash of the public key alone, whatever the secret.
generateHashKey_ignoresSecret(pK1, pK2) == 1 + pK1 * 3

\* transientHash<[Bytes<32>, Bytes<32>]>: collision free, never default<Field>.
generateHashKey(pK1, pK2) == 1 + pK1 * 3 + pK2

\* Every hash key a caller can derive, and default<Field>.
HashKeys == {generateHashKey(p, s) : p \in Callers, s \in Secrets}

Fields == {0} \cup HashKeys

\* transientHash<[Field, Field]>: collision free on pairs of fields.
pairHash(a, b) == 1000 + a * 100 + b

(***************************************************************************)
(* Ledger maps                                                             *)
(***************************************************************************)

EmptyMap == [x \in {} |-> 0]

member(m, k) == k \in DOMAIN m

insert(m, k, v) == [x \in (DOMAIN m) \cup {k} |-> IF x = k THEN v ELSE m[x]]

remove(m, k) == [x \in (DOMAIN m) \ {k} |-> m[x]]

\* The ledger as one value.
Ledger == [tokenOwner |-> tokenOwner, tokenApprovals |-> tokenApprovals,
           ownedTokensCount |-> ownedTokensCount,
           operatorApprovals |-> operatorApprovals]

\* Outcomes of a circuit (or of a part of one), each with the ledger the
\* running circuit has built so far: Ok when it ran to its return, Fail
\* when an assertion or a ledger operation threw at ledger L.
Ok(L, v) == [ok |-> TRUE, err |-> "", L |-> L, val |-> v]

Fail(L, msg) == [ok |-> FALSE, err |-> msg, L |-> L]

\* A witness that threw.
Thrown(msg) == [ok |-> FALSE, err |-> msg]

(***************************************************************************)
(* Witnesses                                                               *)
(***************************************************************************)

\* A witness returns the (new) private state and the value it supplies.
getLocalSecret(ps) ==
    IF ps.local_secret # NoSecret
    THEN [ok |-> TRUE, err |-> "", ps |-> ps, val |-> ps.local_secret]
    ELSE Thrown("No local secret found.")

getSharedSecret(ps) ==
    IF ps.local_secret # NoSecret
    THEN [ok |-> TRUE, err |-> "", ps |-> ps, val |-> ps.shared_secret]
    ELSE Thrown("No shared secret found.")

createNftZkPrivateState(local_secret, shared_secret) ==
    [local_secret |-> local_secret, shared_secret |-> shared_secret]

\* The runtime rejects a witness result that is not a Bytes<32> value.
witnessBytes(r) ==
    IF r.ok /\ r.val = NoSecret THEN Thrown("type error: expected Bytes<32>") ELSE r

(***************************************************************************)
(* Query circuits and internal helper circuits                             *)
(***************************************************************************)

\* tokenExists that answers false for every token id.
tokenExists_alwaysAbsent(L, tokenId) == FALSE

tokenExists(L, tokenId) == member(L.tokenOwner, tokenId)

\* ownerOf that answers the default key for a token without an owner entry.
ownerOf_defaultWhenAbsent(L, tokenId) ==
    IF tokenId = 0 THEN Fail(L, "Token ID cannot be empty.")
    ELSE IF ~tokenExists(L, tokenId) THEN Ok(L, 0)
    ELSE Ok(L, L.tokenOwner[tokenId])

ownerOf(L, tokenId) ==
    IF tokenId = 0 THEN Fail(L, "Token ID cannot be empty.")
    ELSE IF ~tokenExists(L, tokenId) THEN Fail(L, "Token does not exist.")
    ELSE Ok(L, L.tokenOwner[tokenId])

\* getApproved that answers the default key for a token without approval.
getApproved_defaultWhenAbsent(L, tokenId) ==
    IF tokenId = 0 THEN Fail(L, "Token ID cannot be empty.")
    ELSE IF ~tokenExists(L, tokenId) THEN Fail(L, "Token does not exist.")
    ELSE IF ~member(L.tokenApprovals, tokenId) THEN Ok(L, 0)
    ELSE Ok(L, L.tokenApprovals[tokenId])

getApproved(L, tokenId) ==
    IF tokenId = 0 THEN Fail(L, "Token ID cannot be empty.")
    ELSE IF ~tokenExists(L, tokenId) THEN Fail(L, "Token does not exist.")
    ELSE IF ~member(L.tokenApprovals, tokenId) THEN Fail(L, "lookup: key not found")
    ELSE Ok(L, L.tokenApprovals[tokenId])

\* balanceOf that creates the counter of the queried key when there is none.
balanceOf_createsCounter(L, ps, sender, owner) ==
    IF owner = 0 THEN Fail(L, "Owner cannot be empty.")
    ELSE LET s == witnessBytes(IF owner = sender THEN getLocalSecret(ps)
                                                 ELSE getSharedSecret(ps))
         IN  IF ~s.ok THEN Fail(L, s.err)
             ELSE LET ownerHashKey == generateHashKey(owner, s.val)
                  IN  IF member(L.ownedTokensCount, ownerHashKey)
                      THEN Ok(L, L.ownedTokensCount[ownerHashKey])
                      ELSE Ok([L EXCEPT !.ownedTokensCount =
                                  insert(@, ownerHashKey, 0)], 0)

\* balanceOf that derives every queried key with the local secret.
balanceOf_alwaysLocalSecret(L, ps, sender, owner) ==
    IF owner = 0 THEN Fail(L, "Owner cannot be empty.")
    ELSE LET s == witnessBytes(getLocalSecret(ps))
         IN  IF ~s.ok THEN Fail(L, s.err)
             ELSE IF member(L.ownedTokensCount, generateHashKey(owner, s.val))
                  THEN Ok(L, L.ownedTokensCount[generateHashKey(owner, s.val)])
             ELSE Ok(L, 0)

balanceOf(L, ps, sender, owner) ==
    IF owner = 0 THEN Fail(L, "Owner cannot be empty.")
    ELSE IF owner = sender
    THEN LET s == witnessBytes(getLocalSecret(ps))
         IN  IF ~s.ok THEN Fail(L, s.err)
             ELSE LET ownerHashKey == generateHashKey(sender, s.val)
                  IN  IF member(L.ownedTokensCount, ownerHashKey)
                      THEN Ok(L, L.ownedTokensCount[ownerHashKey])
                      ELSE Ok(L, 0)
    ELSE LET s == witnessBytes(getSharedSecret(ps))
         IN  IF ~s.ok THEN Fail(L, s.err)
             ELSE LET ownerHashKey == generateHashKey(owner, s.val)
                  IN  IF member(L.ownedTokensCount, ownerHashKey)
                      THEN Ok(L, L.ownedTokensCount[ownerHashKey])
                      ELSE Ok(L, 0)

\* isApprovedForAll that answers TRUE for every recorded pair, whatever the
\* value recorded for it.
isApprovedForAll_ignoresValue(L, ownerHashKey, operatorHashKey) ==
    member(L.operatorApprovals, pairHash(ownerHashKey, operatorHashKey))

isApprovedForAll(L, ownerHashKey, operatorHashKey) ==
    LET approvalHashKey == pairHash(ownerHashKey, operatorHashKey)
    IN  IF ~member(L.operatorApprovals, approvalHashKey) THEN FALSE
        ELSE L.operatorApprovals[approvalHashKey]

\* isApprovedOrOwner that accepts every spender of an existing token.
isApprovedOrOwner_anySpender(L, spenderHashKey, tokenId) ==
    LET o == ownerOf(L, tokenId)
    IN  IF ~o.ok THEN o ELSE Ok(L, TRUE)

isApprovedOrOwner(L, spenderHashKey, tokenId) ==
    LET o == ownerOf(L, tokenId)
    IN  IF ~o.ok THEN o
        ELSE IF spenderHashKey = o.val THEN Ok(L, TRUE)
        ELSE IF member(L.tokenApprovals, tokenId)
                /\ spenderHashKey = L.tokenApprovals[tokenId] THEN Ok(L, TRUE)
        ELSE Ok(L, isApprovedForAll(L, o.val, spenderHashKey))

\* addTokenTo that creates the recipient's counter and never increments it.
addTokenTo_noIncrement(L, toHashKey, tokenId) ==
    IF tokenExists(L, tokenId) THEN Fail(L, "Token already exists.")
    ELSE IF toHashKey = 0 THEN Fail(L, "Recipient cannot be empty.")
    ELSE LET counts == IF member(L.ownedTokensCount, toHashKey)
                       THEN L.ownedTokensCount
                       ELSE insert(L.ownedTokensCount, toHashKey, 0)
         IN  Ok([L EXCEPT !.tokenOwner = insert(@, tokenId, toHashKey),
                          !.ownedTokensCount = counts],
                0)

\* addTokenTo that sets the recipient's counter to 1 instead of adding 1.
addTokenTo_resetsCounter(L, toHashKey, tokenId) ==
    IF tokenExists(L, tokenId) THEN Fail(L, "Token already exists.")
    ELSE IF toHashKey = 0 THEN Fail(L, "Recipient cannot be empty.")
    ELSE Ok([L EXCEPT !.tokenOwner = insert(@, tokenId, toHashKey),
                      !.ownedTokensCount = insert(@, toHashKey, 1)],
            0)

\* addTokenTo without the check that the token does not exist yet.
addTokenTo_overwrites(L, toHashKey, tokenId) ==
    IF toHashKey = 0 THEN Fail(L, "Recipient cannot be empty.")
    ELSE LET counts == IF member(L.ownedTokensCount, toHashKey)
                       THEN L.ownedTokensCount
                       ELSE insert(L.ownedTokensCount, toHashKey, 0)
         IN  Ok([L EXCEPT !.tokenOwner = insert(@, tokenId, toHashKey),
                          !.ownedTokensCount =
                              insert(counts, toHashKey, counts[toHashKey] + 1)],
                0)

addTokenTo(L, toHashKey, tokenId) ==
    IF tokenExists(L, tokenId) THEN Fail(L, "Token already exists.")
    ELSE IF toHashKey = 0 THEN Fail(L, "Recipient cannot be empty.")
    ELSE LET counts == IF member(L.ownedTokensCount, toHashKey)
                       THEN L.ownedTokensCount
                       ELSE insert(L.ownedTokensCount, toHashKey, 0)
         IN  Ok([L EXCEPT !.tokenOwner = insert(@, tokenId, toHashKey),
                          !.ownedTokensCount =
                              insert(counts, toHashKey, counts[toHashKey] + 1)],
                0)

\* removeTokenFrom that deletes the ownership entry and keeps the counter.
removeTokenFrom_noDecrement(L, fromHashKey, tokenId) ==
    IF fromHashKey = 0 THEN Fail(L, "Sender cannot be empty.")
    ELSE LET o == ownerOf(L, tokenId)
         IN  IF ~o.ok THEN o
             ELSE IF fromHashKey # o.val THEN Fail(L, "Public key is not the owner.")
             ELSE Ok([L EXCEPT !.tokenOwner = remove(@, tokenId)], 0)

removeTokenFrom(L, fromHashKey, tokenId) ==
    IF fromHashKey = 0 THEN Fail(L, "Sender cannot be empty.")
    ELSE LET o == ownerOf(L, tokenId)
         IN  IF ~o.ok THEN o
             ELSE IF fromHashKey # o.val THEN Fail(L, "Public key is not the owner.")
             ELSE IF ~member(L.ownedTokensCount, fromHashKey)
                  THEN Fail(L, "lookup: key not found")
             ELSE IF L.ownedTokensCount[fromHashKey] < 1
                  THEN Fail(L, "decrement: counter underflow")
             ELSE Ok([L EXCEPT !.ownedTokensCount =
                                   insert(@, fromHashKey, @[fromHashKey] - 1),
                               !.tokenOwner = remove(@, tokenId)],
                     0)

\* clearApproval that also forgets the operator approvals.
clearApproval_dropsOperators(L, ownerHashKey, tokenId) ==
    LET o == ownerOf(L, tokenId)
    IN  IF ~o.ok THEN o
        ELSE IF ownerHashKey # o.val THEN Fail(L, "Public key is not the owner.")
        ELSE Ok([L EXCEPT !.tokenApprovals = remove(@, tokenId),
                          !.operatorApprovals = EmptyMap],
                0)

\* clearApproval that checks the owner and keeps the approval entry.
clearApproval_keepsApproval(L, ownerHashKey, tokenId) ==
    LET o == ownerOf(L, tokenId)
    IN  IF ~o.ok THEN o
        ELSE IF ownerHashKey # o.val THEN Fail(L, "Public key is not the owner.")
        ELSE Ok(L, 0)

clearApproval(L, ownerHashKey, tokenId) ==
    LET o == ownerOf(L, tokenId)
    IN  IF ~o.ok THEN o
        ELSE IF ownerHashKey # o.val THEN Fail(L, "Public key is not the owner.")
        ELSE IF o.val # 0
             THEN Ok([L EXCEPT !.tokenApprovals = remove(@, tokenId)], 0)
        ELSE Ok(L, 0)

(***************************************************************************)
(* State-changing circuits.  sender is ownPublicKey(), ps the sender's     *)
(* private state, read by the witnesses.                                   *)
(***************************************************************************)

mint(L, ps, sender, to, tokenId) ==
    IF to = sender
    THEN LET s == witnessBytes(getLocalSecret(ps))
         IN  IF ~s.ok THEN Fail(L, s.err)
             ELSE addTokenTo(L, generateHashKey(sender, s.val), tokenId)
    ELSE LET s == witnessBytes(getSharedSecret(ps))
         IN  IF ~s.ok THEN Fail(L, s.err)
             ELSE addTokenTo(L, generateHashKey(to, s.val), tokenId)

\* burn that removes the token without clearing its approval.
burn_keepsApproval(L, ownerHashKey, tokenId) ==
    removeTokenFrom(L, ownerHashKey, tokenId)

burn(L, ownerHashKey, tokenId) ==
    LET c == clearApproval(L, ownerHashKey, tokenId)
    IN  IF ~c.ok THEN c ELSE removeTokenFrom(c.L, ownerHashKey, tokenId)

\* A transferFrom tail that takes the token from its owner key and gives it
\* to nobody.
moveToken_dropsToken(L, fromHashKey, toHashKey, tokenId) ==
    LET c == clearApproval(L, fromHashKey, tokenId)
    IN  IF ~c.ok THEN c ELSE removeTokenFrom(c.L, fromHashKey, tokenId)

\* The three ledger updates that end transferFrom: clear the approval, take
\* the token from its owner key, give it to the recipient key.
moveToken(L, fromHashKey, toHashKey, tokenId) ==
    LET c == clearApproval(L, fromHashKey, tokenId)
    IN  IF ~c.ok THEN c
        ELSE LET r == removeTokenFrom(c.L, fromHashKey, tokenId)
             IN  IF ~r.ok THEN r
                 ELSE addTokenTo(r.L, toHashKey, tokenId)

\* transferFrom that records the recipient's identity itself as owner key.
transferFrom_rawIdentity(L, ps, sender, fromHashKey, to, tokenId) ==
    IF tokenId = 0 THEN Fail(L, "Token ID cannot be empty.")
    ELSE
    LET loc == witnessBytes(getLocalSecret(ps))
    IN  IF ~loc.ok THEN Fail(L, loc.err)
        ELSE
        LET senderHashKey == generateHashKey(sender, loc.val)
            auth == isApprovedOrOwner(L, senderHashKey, tokenId)
        IN  IF ~auth.ok THEN auth
            ELSE IF ~auth.val THEN Fail(L, "Not authorized to transfer.")
            ELSE moveToken(L, fromHashKey, to, tokenId)

\* transferFrom that derives the recipient key as mint does: with the local
\* secret when the recipient is the caller.
transferFrom_localKeyForSelf(L, ps, sender, fromHashKey, to, tokenId) ==
    IF tokenId = 0 THEN Fail(L, "Token ID cannot be empty.")
    ELSE
    LET loc == witnessBytes(getLocalSecret(ps))
    IN  IF ~loc.ok THEN Fail(L, loc.err)
        ELSE
        LET senderHashKey == generateHashKey(sender, loc.val)
            auth == isApprovedOrOwner(L, senderHashKey, tokenId)
        IN  IF ~auth.ok THEN auth
            ELSE IF ~auth.val THEN Fail(L, "Not authorized to transfer.")
            ELSE
            LET sh == witnessBytes(getSharedSecret(ps))
            IN  IF ~sh.ok THEN Fail(L, sh.err)
                ELSE
                moveToken(L, fromHashKey,
                          generateHashKey(to, IF to = sender THEN loc.val
                                                             ELSE sh.val),
                          tokenId)

transferFrom(L, ps, sender, fromHashKey, to, tokenId) ==
    IF tokenId = 0 THEN Fail(L, "Token ID cannot be empty.")
    ELSE
    LET loc == witnessBytes(getLocalSecret(ps))
    IN  IF ~loc.ok THEN Fail(L, loc.err)
        ELSE
        LET senderHashKey == generateHashKey(sender, loc.val)
            auth == isApprovedOrOwner(L, senderHashKey, tokenId)
        IN  IF ~auth.ok THEN auth
            ELSE IF ~auth.val THEN Fail(L, "Not authorized to transfer.")
            ELSE
            LET sh == witnessBytes(getSharedSecret(ps))
            IN  IF ~sh.ok THEN Fail(L, sh.err)
                ELSE
                moveToken(L, fromHashKey, generateHashKey(to, sh.val), tokenId)

\* transfer that moves the token out of whatever key owns it.
transfer_fromOwner(L, ps, sender, to, tokenId) ==
    IF tokenId = 0 THEN Fail(L, "Token ID cannot be empty.")
    ELSE LET o == ownerOf(L, tokenId)
         IN  IF ~o.ok THEN o
             ELSE transferFrom(L, ps, sender, o.val, to, tokenId)

transfer(L, ps, sender, to, tokenId) ==
    IF tokenId = 0 THEN Fail(L, "Token ID cannot be empty.")
    ELSE LET loc == witnessBytes(getLocalSecret(ps))
         IN  IF ~loc.ok THEN Fail(L, loc.err)
             ELSE transferFrom(L, ps, sender,
                               generateHashKey(sender, loc.val), to, tokenId)

\* approve that also accepts a caller whose key is the token's approval.
approve_byApproved(L, ps, sender, to, tokenId) ==
    IF to = 0 THEN Fail(L, "Approved account cannot be empty.")
    ELSE
    LET loc == witnessBytes(getLocalSecret(ps))
    IN  IF ~loc.ok THEN Fail(L, loc.err)
        ELSE
        LET toLocalHashKey == generateHashKey(to, loc.val)
            o == ownerOf(L, tokenId)
        IN  IF ~o.ok THEN o
            ELSE IF toLocalHashKey = o.val THEN Fail(L, "Cannot approve yourself.")
            ELSE IF ~isApprovedOrOwner(L, generateHashKey(sender, loc.val),
                                        tokenId).val
                 THEN Fail(L, "Not authorized.")
            ELSE
            LET sh == witnessBytes(getSharedSecret(ps))
            IN  IF ~sh.ok THEN Fail(L, sh.err)
                ELSE Ok([L EXCEPT !.tokenApprovals =
                             insert(@, tokenId, generateHashKey(to, sh.val))],
                        0)

\* approve that stores the key derived with the caller's local secret.
approve_storesLocalKey(L, ps, sender, to, tokenId) ==
    IF to = 0 THEN Fail(L, "Approved account cannot be empty.")
    ELSE
    LET loc == witnessBytes(getLocalSecret(ps))
    IN  IF ~loc.ok THEN Fail(L, loc.err)
        ELSE
        LET toLocalHashKey == generateHashKey(to, loc.val)
            o == ownerOf(L, tokenId)
        IN  IF ~o.ok THEN o
            ELSE IF toLocalHashKey = o.val THEN Fail(L, "Cannot approve yourself.")
            ELSE IF ~(generateHashKey(sender, loc.val) = o.val
                      \/ isApprovedForAll(L, o.val, generateHashKey(sender, loc.val)))
                 THEN Fail(L, "Not authorized.")
            ELSE Ok([L EXCEPT !.tokenApprovals =
                         insert(@, tokenId, toLocalHashKey)],
                    0)

approve(L, ps, sender, to, tokenId) ==
    IF to = 0 THEN Fail(L, "Approved account cannot be empty.")
    ELSE
    LET loc == witnessBytes(getLocalSecret(ps))
    IN  IF ~loc.ok THEN Fail(L, loc.err)
        ELSE
        LET toLocalHashKey == generateHashKey(to, loc.val)
            o == ownerOf(L, tokenId)
        IN  IF ~o.ok THEN o
            ELSE IF toLocalHashKey = o.val THEN Fail(L, "Cannot approve yourself.")
            ELSE
            LET senderHashKey == generateHashKey(sender, loc.val)
            IN  IF ~(senderHashKey = o.val
                     \/ isApprovedForAll(L, o.val, senderHashKey))
                THEN Fail(L, "Not authorized.")
                ELSE
                LET sh == witnessBytes(getSharedSecret(ps))
                IN  IF ~sh.ok THEN Fail(L, sh.err)
                    ELSE Ok([L EXCEPT !.tokenApprovals =
                                 insert(@, tokenId, generateHashKey(to, sh.val))],
                            0)

\* setApprovalForAll without the check that the operator is not the caller.
setApprovalForAll_noSelfCheck(L, ps, sender, operator, approved) ==
    IF operator = 0 THEN Fail(L, "Operator cannot be empty.")
    ELSE
    LET loc == witnessBytes(getLocalSecret(ps))
        sh == witnessBytes(getSharedSecret(ps))
    IN  IF ~loc.ok THEN Fail(L, loc.err)
        ELSE IF ~sh.ok THEN Fail(L, sh.err)
        ELSE Ok([L EXCEPT !.operatorApprovals =
                     insert(@, pairHash(generateHashKey(sender, loc.val),
                                        generateHashKey(operator, sh.val)),
                            approved)],
                0)

setApprovalForAll(L, ps, sender, operator, approved) ==
    IF operator = 0 THEN Fail(L, "Operator cannot be empty.")
    ELSE IF operator = sender THEN Fail(L, "Cannot set yourself as operator.")
    ELSE
    LET loc == witnessBytes(getLocalSecret(ps))
    IN  IF ~loc.ok THEN Fail(L, loc.err)
        ELSE
        LET sh == witnessBytes(getSharedSecret(ps))
        IN  IF ~sh.ok THEN Fail(L, sh.err)
            ELSE
            LET senderHashKey == generateHashKey(sender, loc.val)
                operatorHashKey == generateHashKey(operator, sh.val)
                hashKey == pairHash(senderHashKey, operatorHashKey)
            IN  Ok([L EXCEPT !.operatorApprovals = insert(@, hashKey, approved)], 0)

(***************************************************************************)
(* The state machine                                                       *)
(***************************************************************************)

\* The private states the callers are constructed with.  Secrets are opaque,
\* so what matters is which of them coincide:
\*  - PairedSecrets: each caller's local secret is the other's shared secret,
\*    so a key derived for a counterparty is the key that party derives for
\*    itself;
\*  - SamePrivateState: both callers hold the same (local, shared) pair, so no
\*    local secret equals any shared secret;
\*  - SingleSecret: every secret is the same byte string.
PairedSecrets ==
    (Alice :> createNftZkPrivateState(1, 2)) @@ (Bob :> createNftZkPrivateState(2, 1))

SamePrivateState ==
    (Alice :> createNftZkPrivateState(1, 2)) @@ (Bob :> createNftZkPrivateState(1, 2))

SingleSecret ==
    (Alice :> createNftZkPrivateState(1, 1)) @@ (Bob :> createNftZkPrivateState(1, 1))

PrivateStates == {PairedSecrets, SamePrivateState, SingleSecret}

\* The ledger the execution environment holds after a call that returned r
\* from ledger L: the returned ledger, or L itself when the circuit threw
\* (what the circuit had written before it threw is dropped).
\* An environment that keeps whatever the circuit wrote before it threw.
After_keepsWrites(L, r) == r.L

After(L, r) == IF r.ok THEN r.L ELSE L

Commit(r) ==
    /\ tokenOwner' = After(Ledger, r).tokenOwner
    /\ tokenApprovals' = After(Ledger, r).tokenApprovals
    /\ ownedTokensCount' = After(Ledger, r).ownedTokensCount
    /\ operatorApprovals' = After(Ledger, r).operatorApprovals
    /\ UNCHANGED <<privateState, contractAdmin, currentTokenId>>

\* last names the circuit of the most recent call that committed.
Called(op, r) == IF r.ok THEN [op |-> op] ELSE last

Init ==
    /\ tokenOwner = EmptyMap
    /\ tokenApprovals = EmptyMap
    /\ ownedTokensCount = EmptyMap
    /\ operatorApprovals = EmptyMap
    /\ privateState \in PrivateStates
    /\ contractAdmin = Alice
    /\ currentTokenId = 1
    /\ last = [op |-> "init"]

Mint(sender, to, tokenId) ==
    LET r == mint(Ledger, privateState[sender], sender, to, tokenId)
    IN  Commit(r) /\ last' = Called("mint", r)

Burn(sender, ownerHashKey, tokenId) ==
    LET r == burn(Ledger, ownerHashKey, tokenId)
    IN  Commit(r) /\ last' = Called("burn", r)

TransferFrom(sender, fromHashKey, to, tokenId) ==
    LET r == transferFrom(Ledger, privateState[sender], sender, fromHashKey, to, tokenId)
    IN  Commit(r) /\ last' = Called("transferFrom", r)

Transfer(sender, to, tokenId) ==
    LET r == transfer(Ledger, privateState[sender], sender, to, tokenId)
    IN  Commit(r) /\ last' = Called("transfer", r)

Approve(sender, to, tokenId) ==
    LET r == approve(Ledger, privateState[sender], sender, to, tokenId)
    IN  Commit(r) /\ last' = Called("approve", r)

SetApprovalForAll(sender, operator, approved) ==
    LET r == setApprovalForAll(Ledger, privateState[sender], sender, operator, approved)
    IN  Commit(r) /\ last' = Called("setApprovalForAll", r)

Next ==
    \/ \E c \in Callers, to \in Recipients, t \in TokenIds : Mint(c, to, t)
    \/ \E c \in Callers, k \in Fields, t \in TokenIds : Burn(c, k, t)
    \/ \E c \in Callers, k \in Fields, to \in Recipients, t \in TokenIds :
          TransferFrom(c, k, to, t)
    \/ \E c \in Callers, to \in Recipients, t \in TokenIds : Transfer(c, to, t)
    \/ \E c \in Callers, to \in PublicKeys, t \in TokenIds : Approve(c, to, t)
    \/ \E c \in Callers, op \in PublicKeys, a \in BOOLEAN : SetApprovalForAll(c, op, a)

Spec == Init /\ [][Next]_vars

(***************************************************************************)
(* The admin contract: it imports the module, exports its circuits except  *)
(* mint and burn, and adds mintAdmin and burnAdmin for the deployer.       *)
(***************************************************************************)

mintAdmin(L, ps, admin, sender, to, tokenId) ==
    IF sender # admin THEN Fail(L, "Not authorized to mint.")
    ELSE mint(L, ps, sender, to, tokenId)

burnAdmin(L, admin, sender, tokenId) ==
    IF sender # admin THEN Fail(L, "Not authorized to burn.")
    ELSE LET tokenOwnerHashKey == ownerOf(L, tokenId)
         IN  IF ~tokenOwnerHashKey.ok THEN tokenOwnerHashKey
             ELSE burn(L, tokenOwnerHashKey.val, tokenId)

\* constructor: the deployer becomes the admin.
InitAdmin ==
    /\ tokenOwner = EmptyMap
    /\ tokenApprovals = EmptyMap
    /\ ownedTokensCount = EmptyMap
    /\ operatorApprovals = EmptyMap
    /\ privateState \in PrivateStates
    /\ contractAdmin \in Callers
    /\ currentTokenId = 1
    /\ last = [op |-> "init"]

MintAdmin(sender, to, tokenId) ==
    LET r == mintAdmin(Ledger, privateState[sender], contractAdmin, sender, to, tokenId)
    IN  Commit(r) /\ last' = Called("mintAdmin", r)

BurnAdmin(sender, tokenId) ==
    LET r == burnAdmin(Ledger, contractAdmin, sender, tokenId)
    IN  Commit(r) /\ last' = Called("burnAdmin", r)

NextAdmin ==
    \/ \E c \in Callers, to \in Recipients, t \in TokenIds : MintAdmin(c, to, t)
    \/ \E c \in Callers, t \in TokenIds : BurnAdmin(c, t)
    \/ \E c \in Callers, k \in Fields, to \in Recipients, t \in TokenIds :
          TransferFrom(c, k, to, t)
    \/ \E c \in Callers, to \in Recipients, t \in TokenIds : Transfer(c, to, t)
    \/ \E c \in Callers, to \in PublicKeys, t \in TokenIds : Approve(c, to, t)
    \/ \E c \in Callers, op \in PublicKeys, a \in BOOLEAN : SetApprovalForAll(c, op, a)

SpecAdmin == InitAdmin /\ [][NextAdmin]_vars

(***************************************************************************)
(* The public Nft module: the same four ledger maps, keyed by public keys  *)
(* instead of hash keys, and no witnesses.  Its query and helper circuits  *)
(* have the text of NftZk's, with ZswapCoinPublicKey where NftZk has Field.*)
(***************************************************************************)

Nft_tokenExists(L, tokenId) == tokenExists(L, tokenId)

Nft_ownerOf(L, tokenId) == ownerOf(L, tokenId)

Nft_getApproved(L, tokenId) == getApproved(L, tokenId)

Nft_balanceOf(L, owner) ==
    IF owner = 0 THEN Fail(L, "Owner cannot be empty.")
    ELSE IF member(L.ownedTokensCount, owner)
         THEN Ok(L, L.ownedTokensCount[owner])
    ELSE Ok(L, 0)

\* The key is transientHash([owner.bytes, operator.bytes]).
Nft_isApprovedForAll(L, owner, operator) == isApprovedForAll(L, owner, operator)

Nft_isApprovedOrOwner(L, spender, tokenId) ==
    LET o == Nft_ownerOf(L, tokenId)
    IN  IF ~o.ok THEN o
        ELSE IF spender = o.val THEN Ok(L, TRUE)
        ELSE IF member(L.tokenApprovals, tokenId)
                /\ spender = L.tokenApprovals[tokenId] THEN Ok(L, TRUE)
        ELSE Ok(L, Nft_isApprovedForAll(L, o.val, spender))

Nft_addTokenTo(L, to, tokenId) == addTokenTo(L, to, tokenId)

Nft_removeTokenFrom(L, from, tokenId) == removeTokenFrom(L, from, tokenId)

\* clearApproval that checks the owner and keeps the approval entry.
Nft_clearApproval_keepsApproval(L, owner, tokenId) ==
    clearApproval_keepsApproval(L, owner, tokenId)

Nft_clearApproval(L, owner, tokenId) == clearApproval(L, owner, tokenId)

Nft_mint(L, to, tokenId) == Nft_addTokenTo(L, to, tokenId)

Nft_burn(L, owner, tokenId) ==
    LET c == Nft_clearApproval(L, owner, tokenId)
    IN  IF ~c.ok THEN c ELSE Nft_removeTokenFrom(c.L, owner, tokenId)

Nft_transferFrom(L, sender, from, to, tokenId) ==
    IF tokenId = 0 THEN Fail(L, "Token ID cannot be empty.")
    ELSE
    LET auth == Nft_isApprovedOrOwner(L, sender, tokenId)
    IN  IF ~auth.ok THEN auth
        ELSE IF ~auth.val THEN Fail(L, "Not authorized to transfer.")
        ELSE
        LET c == Nft_clearApproval(L, from, tokenId)
        IN  IF ~c.ok THEN c
            ELSE LET r == Nft_removeTokenFrom(c.L, from, tokenId)
                 IN  IF ~r.ok THEN r
                     ELSE Nft_addTokenTo(r.L, to, tokenId)

Nft_transfer(L, sender, to, tokenId) ==
    IF tokenId = 0 THEN Fail(L, "Token ID cannot be empty.")
    ELSE Nft_transferFrom(L, sender, sender, to, tokenId)

Nft_approve(L, sender, to, tokenId) ==
    IF to = 0 THEN Fail(L, "Approved address cannot be empty.")
    ELSE
    LET owner == Nft_ownerOf(L, tokenId)
    IN  IF ~owner.ok THEN owner
        ELSE IF to = owner.val THEN Fail(L, "Cannot approve yourself.")
        ELSE IF ~(sender = owner.val
                  \/ Nft_isApprovedForAll(L, owner.val, sender))
             THEN Fail(L, "Not authorized.")
        ELSE Ok([L EXCEPT !.tokenApprovals = insert(@, tokenId, to)], 0)

Nft_setApprovalForAll(L, sender, operator, approved) ==
    IF operator = 0 THEN Fail(L, "Operator cannot be empty.")
    ELSE IF operator = sender THEN Fail(L, "Cannot set yourself as operator.")
    ELSE LET hashKey == pairHash(sender, operator)
         IN  Ok([L EXCEPT !.operatorApprovals = insert(@, hashKey, approved)], 0)

\* The module has no witnesses and its callers' private state is empty.
NftPrivateState == createNftZkPrivateState(NoSecret, NoSecret)

InitNft ==
    /\ tokenOwner = EmptyMap
    /\ tokenApprovals = EmptyMap
    /\ ownedTokensCount = EmptyMap
    /\ operatorApprovals = EmptyMap
    /\ privateState = [c \in Callers |-> NftPrivateState]
    /\ contractAdmin = Alice
    /\ currentTokenId = 1
    /\ last = [op |-> "init"]

NftMint(sender, to, tokenId) ==
    LET r == Nft_mint(Ledger, to, tokenId)
    IN  Commit(r) /\ last' = Called("mint", r)

NftBurn(sender, owner, tokenId) ==
    LET r == Nft_burn(Ledger, owner, tokenId)
    IN  Commit(r) /\ last' = Called("burn", r)

NftTransferFrom(sender, from, to, tokenId) ==
    LET r == Nft_transferFrom(Ledger, sender, from, to, tokenId)
    IN  Commit(r) /\ last' = Called("transferFrom", r)

NftTransfer(sender, to, tokenId) ==
    LET r == Nft_transfer(Ledger, sender, to, tokenId)
    IN  Commit(r) /\ last' = Called("transfer", r)

NftApprove(sender, to, tokenId) ==
    LET r == Nft_approve(Ledger, sender, to, tokenId)
    IN  Commit(r) /\ last' = Called("approve", r)

NftSetApprovalForAll(sender, operator, approved) ==
    LET r == Nft_setApprovalForAll(Ledger, sender, operator, approved)
    IN  Commit(r) /\ last' = Called("setApprovalForAll", r)

NextNft ==
    \/ \E c \in Callers, to \in PublicKeys, t \in TokenIds : NftMint(c, to, t)
    \/ \E c \in Callers, o \in PublicKeys, t \in TokenIds : NftBurn(c, o, t)
    \/ \E c \in Callers, f \in PublicKeys, to \in PublicKeys, t \in TokenIds :
          NftTransferFrom(c, f, to, t)
    \/ \E c \in Callers, to \in PublicKeys, t \in TokenIds : NftTransfer(c, to, t)
    \/ \E c \in Callers, to \in PublicKeys, t \in TokenIds : NftApprove(c, to, t)
    \/ \E c \in Callers, op \in PublicKeys, a \in BOOLEAN :
          NftSetApprovalForAll(c, op, a)

SpecNft == InitNft /\ [][NextNft]_vars

\* Either module, deployed on its own: the NftZk module with callers that
\* hold secrets, or the Nft module with callers that hold none.
InitModules == Init \/ InitNft

\* The deployed module is NftZk.
NftZkDeployed == privateState \in PrivateStates

NextModules ==
    \/ \E c \in Callers, to \in Recipients, t \in TokenIds :
          NftZkDeployed /\ Mint(c, to, t)
    \/ \E c \in Callers, k \in Fields, t \in TokenIds :
          NftZkDeployed /\ Burn(c, k, t)
    \/ \E c \in Callers, k \in Fields, to \in Recipients, t \in TokenIds :
          NftZkDeployed /\ TransferFrom(c, k, to, t)
    \/ \E c \in Callers, to \in Recipients, t \in TokenIds :
          NftZkDeployed /\ Transfer(c, to, t)
    \/ \E c \in Callers, to \in PublicKeys, t \in TokenIds :
          NftZkDeployed /\ Approve(c, to, t)
    \/ \E c \in Callers, op \in PublicKeys, a \in BOOLEAN :
          NftZkDeployed /\ SetApprovalForAll(c, op, a)
    \/ \E c \in Callers, to \in PublicKeys, t \in TokenIds :
          ~NftZkDeployed /\ NftMint(c, to, t)
    \/ \E c \in Callers, o \in PublicKeys, t \in TokenIds :
          ~NftZkDeployed /\ NftBurn(c, o, t)
    \/ \E c \in Callers, f \in PublicKeys, to \in PublicKeys, t \in TokenIds :
          ~NftZkDeployed /\ NftTransferFrom(c, f, to, t)
    \/ \E c \in Callers, to \in PublicKeys, t \in TokenIds :
          ~NftZkDeployed /\ NftTransfer(c, to, t)
    \/ \E c \in Callers, to \in PublicKeys, t \in TokenIds :
          ~NftZkDeployed /\ NftApprove(c, to, t)
    \/ \E c \in Callers, op \in PublicKeys, a \in BOOLEAN :
          ~NftZkDeployed /\ NftSetApprovalForAll(c, op, a)

SpecModules == InitModules /\ [][NextModules]_vars

(***************************************************************************)
(* The witness provider on its own: private states with and without each   *)
(* secret, and one action per witness.  A witness call leaves the ledger   *)
(* alone; the private state it returns becomes the caller's private state. *)
(***************************************************************************)

\* Every private state: each field holds a secret or none.
AllPrivateStates ==
    {createNftZkPrivateState(l, s) :
        l \in {NoSecret} \cup Secrets, s \in {NoSecret} \cup Secrets}

InitWitness ==
    /\ tokenOwner = EmptyMap
    /\ tokenApprovals = EmptyMap
    /\ ownedTokensCount = EmptyMap
    /\ operatorApprovals = EmptyMap
    /\ privateState \in [Callers -> AllPrivateStates]
    /\ contractAdmin = Alice
    /\ currentTokenId = 1
    /\ last = [op |-> "init"]

\* The caller's private state after a witness call that returned r.
Witnessed(c, r) ==
    IF r.ok THEN [privateState EXCEPT ![c] = r.ps] ELSE privateState

GetLocalSecret(c) ==
    LET r == getLocalSecret(privateState[c])
    IN  /\ privateState' = Witnessed(c, r)
        /\ last' = [op |-> "getLocalSecret", caller |-> c, r |-> r]
        /\ UNCHANGED <<tokenOwner, tokenApprovals, ownedTokensCount,
                       operatorApprovals, contractAdmin, currentTokenId>>

GetSharedSecret(c) ==
    LET r == getSharedSecret(privateState[c])
    IN  /\ privateState' = Witnessed(c, r)
        /\ last' = [op |-> "getSharedSecret", caller |-> c, r |-> r]
        /\ UNCHANGED <<tokenOwner, tokenApprovals, ownedTokensCount,
                       operatorApprovals, contractAdmin, currentTokenId>>

NextWitness ==
    \/ \E c \in Callers : GetLocalSecret(c)
    \/ \E c \in Callers : GetSharedSecret(c)

SpecWitness == InitWitness /\ [][NextWitness]_vars

(***************************************************************************)
(* The in-memory NftSimulator                                              *)
(***************************************************************************)

\* The most ids the simulator hands out, and the largest balance it records.
MaxMints == 2

SimTokenIds == 1..MaxMints

\* The owner key under which setApprovalForAll records its entries.
placeholderSender == 3

\* ledgerState as one value.
ledgerState ==
    [tokenOwner |-> tokenOwner, tokenApprovals |-> tokenApprovals,
     ownedTokensCount |-> ownedTokensCount,
     operatorApprovals |-> operatorApprovals,
     currentTokenId |-> currentTokenId]

\* Map.get(k) || 0n
getOrZero(m, k) == IF member(m, k) THEN m[k] ELSE 0

NftSimulator_mint(L, to) ==
    LET tokenId == L.currentTokenId
        currentCount == getOrZero(L.ownedTokensCount, to)
    IN  Ok([L EXCEPT !.tokenOwner = insert(@, tokenId, to),
                     !.ownedTokensCount = insert(@, to, currentCount + 1),
                     !.currentTokenId = tokenId + 1],
           tokenId)

NftSimulator_ownerOf(L, tokenId) ==
    IF ~member(L.tokenOwner, tokenId) THEN Fail(L, "Token does not exist")
    ELSE Ok(L, L.tokenOwner[tokenId])

NftSimulator_balanceOf(L, owner) == Ok(L, getOrZero(L.ownedTokensCount, owner))

NftSimulator_approve(L, to, tokenId) ==
    Ok([L EXCEPT !.tokenApprovals = insert(@, tokenId, to)], 0)

NftSimulator_setApprovalForAll(L, operator, approved) ==
    LET sender == placeholderSender
        senderApprovals == IF member(L.operatorApprovals, sender)
                           THEN L.operatorApprovals[sender]
                           ELSE EmptyMap
    IN  Ok([L EXCEPT !.operatorApprovals =
                        insert(@, sender, insert(senderApprovals, operator, approved))],
           0)

NftSimulator_isApprovedForAll(L, owner, operator) ==
    IF ~member(L.operatorApprovals, owner) THEN Ok(L, FALSE)
    ELSE IF ~member(L.operatorApprovals[owner], operator) THEN Ok(L, FALSE)
    ELSE Ok(L, L.operatorApprovals[owner][operator])

\* Both balances are read before either is written.
NftSimulator_transferFrom(L, from, to, tokenId) ==
    IF ~member(L.tokenOwner, tokenId) \/ L.tokenOwner[tokenId] # from
    THEN Fail(L, "Invalid transfer")
    ELSE LET fromBalance == getOrZero(L.ownedTokensCount, from)
             toBalance == getOrZero(L.ownedTokensCount, to)
         IN  Ok([L EXCEPT !.tokenApprovals = remove(@, tokenId),
                          !.tokenOwner = insert(@, tokenId, to),
                          !.ownedTokensCount =
                              insert(insert(@, from, fromBalance - 1),
                                     to, toBalance + 1)],
                0)

NftSimulator_burn(L, tokenId) ==
    IF ~member(L.tokenOwner, tokenId) THEN Fail(L, "Token does not exist")
    ELSE LET owner == L.tokenOwner[tokenId]
             ownerBalance == getOrZero(L.ownedTokensCount, owner)
         IN  Ok([L EXCEPT !.tokenApprovals = remove(@, tokenId),
                          !.tokenOwner = remove(@, tokenId),
                          !.ownedTokensCount = insert(@, owner, ownerBalance - 1)],
                0)

\* The simulator holds the ledger a call returned; a call that threw has
\* written nothing.
SimCommit(r) ==
    /\ tokenOwner' = After(ledgerState, r).tokenOwner
    /\ tokenApprovals' = After(ledgerState, r).tokenApprovals
    /\ ownedTokensCount' = After(ledgerState, r).ownedTokensCount
    /\ operatorApprovals' = After(ledgerState, r).operatorApprovals
    /\ currentTokenId' = After(ledgerState, r).currentTokenId
    /\ UNCHANGED <<privateState, contractAdmin>>

\* last names the most recent call that returned, with the value returned.
SimCalled(op, r) == IF r.ok THEN [op |-> op, val |-> r.val] ELSE last

InitSimulator ==
    /\ tokenOwner = EmptyMap
    /\ tokenApprovals = EmptyMap
    /\ ownedTokensCount = EmptyMap
    /\ operatorApprovals = EmptyMap
    /\ currentTokenId = 1
    /\ privateState = [c \in Callers |-> NftPrivateState]
    /\ contractAdmin = Alice
    /\ last = [op |-> "init", val |-> 0]

SimMint(to) ==
    /\ currentTokenId <= MaxMints
    /\ LET r == NftSimulator_mint(ledgerState, to)
       IN  SimCommit(r) /\ last' = SimCalled("mint", r)

SimTransferFrom(from, to, tokenId) ==
    LET r == NftSimulator_transferFrom(ledgerState, from, to, tokenId)
    IN  /\ \A p \in Callers :
              NftSimulator_balanceOf(After(ledgerState, r), p).val <= MaxMints
        /\ SimCommit(r) /\ last' = SimCalled("transferFrom", r)

SimBurn(tokenId) ==
    LET r == NftSimulator_burn(ledgerState, tokenId)
    IN  SimCommit(r) /\ last' = SimCalled("burn", r)

SimApprove(to, tokenId) ==
    LET r == NftSimulator_approve(ledgerState, to, tokenId)
    IN  SimCommit(r) /\ last' = SimCalled("approve", r)

SimSetApprovalForAll(operator, approved) ==
    LET r == NftSimulator_setApprovalForAll(ledgerState, operator, approved)
    IN  SimCommit(r) /\ last' = SimCalled("setApprovalForAll", r)

NextSimulator ==
    \/ \E to \in Callers : SimMint(to)
    \/ \E from \in Callers, to \in Callers, t \in SimTokenIds :
          SimTransferFrom(from, to, t)
    \/ \E t \in SimTokenIds : SimBurn(t)
    \/ \E to \in Callers, t \in SimTokenIds : SimApprove(to, t)
    \/ \E op \in Callers, a \in BOOLEAN : SimSetApprovalForAll(op, a)

SpecSimulator == InitSimulator /\ [][NextSimulator]_vars

(***************************************************************************)
(* The module with its queries called between the other circuits           *)
(***************************************************************************)

QueryNames == {"balanceOf", "ownerOf", "tokenExists", "getApproved",
               "isApprovedForAll"}

\* A query method returns the circuit's result and keeps its own context:
\* ledger and private states stay as they were.
Queried(op, returned) ==
    /\ last' = IF returned THEN [op |-> op] ELSE last
    /\ UNCHANGED <<tokenOwner, tokenApprovals, ownedTokensCount,
                   operatorApprovals, privateState, contractAdmin,
                   currentTokenId>>

BalanceOf(sender, owner) ==
    Queried("balanceOf", balanceOf(Ledger, privateState[sender], sender, owner).ok)

OwnerOf(tokenId) == Queried("ownerOf", ownerOf(Ledger, tokenId).ok)

TokenExists(tokenId) ==
    Queried("tokenExists", tokenExists(Ledger, tokenId) \in BOOLEAN)

GetApproved(tokenId) == Queried("getApproved", getApproved(Ledger, tokenId).ok)

IsApprovedForAll(ownerHashKey, operatorHashKey) ==
    Queried("isApprovedForAll",
            isApprovedForAll(Ledger, ownerHashKey, operatorHashKey) \in BOOLEAN)

NextQueries ==
    \/ \E c \in Callers, to \in Recipients, t \in TokenIds : Mint(c, to, t)
    \/ \E c \in Callers, k \in Fields, t \in TokenIds : Burn(c, k, t)
    \/ \E c \in Callers, k \in Fields, to \in Recipients, t \in TokenIds :
          TransferFrom(c, k, to, t)
    \/ \E c \in Callers, to \in Recipients, t \in TokenIds : Transfer(c, to, t)
    \/ \E c \in Callers, to \in PublicKeys, t \in TokenIds : Approve(c, to, t)
    \/ \E c \in Callers, op \in PublicKeys, a \in BOOLEAN : SetApprovalForAll(c, op, a)
    \/ \E c \in Callers, owner \in PublicKeys : BalanceOf(c, owner)
    \/ \E t \in TokenIds : OwnerOf(t)
    \/ \E t \in TokenIds : TokenExists(t)
    \/ \E t \in TokenIds : GetApproved(t)
    \/ \E k1 \in Fields, k2 \in Fields : IsApprovedForAll(k1, k2)

\* The simulator's construction: the two callers hold the two secrets, each
\* the other's way round, so that every key a query derives is in use.
InitQueries == Init /\ privateState = PairedSecrets

SpecQueries == InitQueries /\ [][NextQueries]_vars

(***************************************************************************)
(* Notation for the properties                                             *)
(***************************************************************************)

\* The counter stored for hash key k, 0 when there is none.
ownedCount(L, k) ==
    IF member(L.ownedTokensCount, k) THEN L.ownedTokensCount[k] ELSE 0

\* The number of ownership entries whose value is k.
numOwned(L, k) == Cardinality({t \in DOMAIN L.tokenOwner : L.tokenOwner[t] = k})

\* The key a caller derives for itself, and the key it derives for party p.
localKey(c) == generateHashKey(c, privateState[c].local_secret)

sharedKey(c, p) == generateHashKey(p, privateState[c].shared_secret)

\* Maps m1 and m2 agree at x: both have no entry, or both the same entry.
sameAt(m1, m2, x) ==
    /\ (x \in DOMAIN m1) <=> (x \in DOMAIN m2)
    /\ (x \in DOMAIN m1) => (m1[x] = m2[x])

\* Every key that may carry a counter.
CountedKeys == Fields \cup DOMAIN ownedTokensCount

\* 1 when the keys are equal, else 0.
one(a, b) == IF a = b THEN 1 ELSE 0

(***************************************************************************)
(* C1 - balance invariant                                                  *)
(***************************************************************************)

\* C1: in every reachable state, for every hash key k, the counter
\* ownedTokensCount[k] (0 when absent) equals the number of tokenOwner
\* entries whose value is k.
C1_CounterMatchesOwnership ==
    \A k \in CountedKeys : ownedCount(Ledger, k) = numOwned(Ledger, k)

\* A key whose counter went back to 0 next to a key that owns two tokens.
C1_Witness ==
    /\ last.op \in {"burn", "transfer", "transferFrom", "mint"}
    /\ \E k \in DOMAIN ownedTokensCount : ownedTokensCount[k] = 0
    /\ \E k \in DOMAIN ownedTokensCount : ownedTokensCount[k] = 2

(***************************************************************************)
(* C2 - who may move a token                                               *)
(***************************************************************************)

\* The caller c is entitled to move token t out of key k.
mayTransfer(c, k, t) ==
    /\ t \in DOMAIN tokenOwner
    /\ k = tokenOwner[t]
    /\ \/ localKey(c) = tokenOwner[t]
       \/ t \in DOMAIN tokenApprovals /\ tokenApprovals[t] = localKey(c)
       \/ /\ pairHash(tokenOwner[t], localKey(c)) \in DOMAIN operatorApprovals
          /\ operatorApprovals[pairHash(tokenOwner[t], localKey(c))]

\* C2: transferFrom(fromHashKey, to, tokenId) changes the ledger only if the
\* token exists, fromHashKey is the recorded owner key and the caller's own
\* key is the owner key, the token's approval entry, or has a true operator
\* entry for (owner key, caller key); in every other case the call fails and
\* the ledger is unchanged.
C2_TransferFromAuthorized ==
    \A c \in Callers, k \in Fields, to \in PublicKeys, t \in TokenIds :
        LET r == transferFrom(Ledger, privateState[c], c, k, to, t)
        IN  /\ After(Ledger, r) # Ledger => mayTransfer(c, k, t)
            /\ ~mayTransfer(c, k, t) => ~r.ok /\ After(Ledger, r) = Ledger

\* A transferFrom has committed, and a caller who is not entitled to move a
\* token names its owner key and is refused.
C2_Witness ==
    /\ last.op = "transferFrom"
    /\ \E c \in Callers, to \in Recipients, t \in DOMAIN tokenOwner :
          /\ t # 0
          /\ ~mayTransfer(c, tokenOwner[t], t)
          /\ transferFrom(Ledger, privateState[c], c, tokenOwner[t], to, t).err
                 = "Not authorized to transfer."

(***************************************************************************)
(* C3 - what a transfer does                                               *)
(***************************************************************************)

mintKey(c, to) == IF to = c THEN localKey(c) ELSE sharedKey(c, to)

\* The effects of a mint that returned r from the current ledger.
mintEffects(c, to, t, r) ==
    /\ ownerOf(r.L, t).ok
    /\ ownerOf(r.L, t).val = mintKey(c, to)
    /\ member(r.L.ownedTokensCount, mintKey(c, to))
    /\ ownedCount(r.L, mintKey(c, to)) = ownedCount(Ledger, mintKey(c, to)) + 1
    /\ t \notin DOMAIN r.L.tokenApprovals

\* C4: after a successful mint(A, t), ownerOf(t) is the key derived from A
\* and the caller's local secret when A is the caller, and from A and the
\* caller's shared secret otherwise; the counter of that key has grown by
\* exactly 1 (it is 1 if there was none) and t has no approval entry.
C4_MintEffects ==
    \A c \in Callers, to \in Recipients, t \in TokenIds :
        LET r == mint(Ledger, privateState[c], c, to, t)
        IN  r.ok => mintEffects(c, to, t, r)

\* The same for token ids other than 0, the ids ownerOf answers for.
C4_MintEffectsOfNonZeroId ==
    \A c \in Callers, to \in Recipients, t \in TokenIds \ {0} :
        LET r == mint(Ledger, privateState[c], c, to, t)
        IN  r.ok => mintEffects(c, to, t, r)

(***************************************************************************)
(* C5 - minting an existing token                                          *)
(***************************************************************************)

\* C5: mint(to, t) of a token id t that already exists fails for every
\* recipient and every caller, and leaves owners, approvals, counters and
\* operator approvals unchanged.
C5_DuplicateMintFails ==
    \A c \in Callers, to \in PublicKeys, t \in DOMAIN tokenOwner :
        LET r == mint(Ledger, privateState[c], c, to, t)
        IN  /\ ~r.ok
            /\ After(Ledger, r) = Ledger
            /\ After(Ledger, r).tokenOwner[t] = tokenOwner[t]

\* A mint has committed and every further mint of that token is refused as a
\* duplicate.
C5_Witness ==
    /\ last.op = "mint"
    /\ \E t \in DOMAIN tokenOwner : \A c \in Callers, to \in Recipients :
          mint(Ledger, privateState[c], c, to, t).err = "Token already exists."

(***************************************************************************)
(* C6 - token id 0                                                         *)
(***************************************************************************)

\* C6: mint(to, 0) is rejected with no state change, so no reachable state
\* has an ownership entry for token id 0 and no counter accounts for such a
\* token.
C6_NoTokenZero ==
    /\ \A c \in Callers, to \in PublicKeys :
          LET r == mint(Ledger, privateState[c], c, to, 0)
          IN  ~r.ok /\ After(Ledger, r) = Ledger
    /\ 0 \notin DOMAIN tokenOwner

(***************************************************************************)
(* C7 - what an approval does                                              *)
(***************************************************************************)

\* C7: after a successful approve(B, t), getApproved(t) is the key derived
\* from B and the caller's shared secret, whatever approval t had before
\* (one approval per token, the last writer wins); approve changes no owner
\* entry, no counter, no operator approval and no other token's approval.
C7_ApproveEffects ==
    \A c \in Callers, to \in PublicKeys, t \in TokenIds :
        LET r == approve(Ledger, privateState[c], c, to, t)
        IN  r.ok =>
            /\ getApproved(r.L, t).ok
            /\ getApproved(r.L, t).val = sharedKey(c, to)
            /\ r.L.tokenOwner = tokenOwner
            /\ r.L.ownedTokensCount = ownedTokensCount
            /\ r.L.operatorApprovals = operatorApprovals
            /\ \A u \in TokenIds \ {t} :
                  sameAt(r.L.tokenApprovals, tokenApprovals, u)

\* An approve has committed, and another approve of the same token is ready
\* to replace the entry it left by a different key.
C7_Witness ==
    /\ last.op = "approve"
    /\ \E c \in Callers, to \in Callers, t \in DOMAIN tokenApprovals :
          LET r == approve(Ledger, privateState[c], c, to, t)
          IN  r.ok /\ r.L.tokenApprovals[t] # tokenApprovals[t]

(***************************************************************************)
(* C8 - approvals follow ownership                                         *)
(***************************************************************************)

\* Token t has an owner now and a different one, or none, after the step.
ownerChanges(t) ==
    /\ t \in DOMAIN tokenOwner
    /\ t \notin DOMAIN tokenOwner' \/ tokenOwner'[t] # tokenOwner[t]

\* C8: in every reachable state every token id with an approval entry has
\* an ownership entry, and every step that changes or deletes the owner of
\* a token t leaves t without an approval entry.
C8_ApprovalsFollowOwnership ==
    /\ [](DOMAIN tokenApprovals \subseteq DOMAIN tokenOwner)
    /\ [][\A t \in TokenIds : ownerChanges(t) => t \notin DOMAIN tokenApprovals']_vars

\* An approved token whose owner the next transfer changes.
C8_Witness ==
    /\ last.op = "approve"
    /\ \E c \in Callers, to \in Recipients, t \in DOMAIN tokenApprovals :
          LET r == transferFrom(Ledger, privateState[c], c, tokenOwner[t], to, t)
          IN  r.ok /\ r.L.tokenOwner[t] # tokenOwner[t]

(***************************************************************************)
(* C9 - what a burn does                                                   *)
(***************************************************************************)

\* C9: a successful burn(ownerOf(t), t) removes t's ownership entry and
\* approval entry (ownerOf(t) and getApproved(t) then fail), takes exactly 1
\* from the counter of the former owner key, and changes no other token's
\* owner or approval, no other counter and no operator approval.
C9_BurnEffects ==
    \A t \in TokenIds :
        LET o == ownerOf(Ledger, t)
        IN  o.ok =>
            LET r == burn(Ledger, o.val, t)
            IN  r.ok =>
                /\ t \notin DOMAIN r.L.tokenOwner
                /\ t \notin DOMAIN r.L.tokenApprovals
                /\ ~ownerOf(r.L, t).ok
                /\ ~getApproved(r.L, t).ok
                /\ \A k \in CountedKeys \cup DOMAIN r.L.ownedTokensCount :
                      ownedCount(r.L, k) = ownedCount(Ledger, k) - one(k, o.val)
                /\ \A u \in TokenIds \ {t} :
                      /\ sameAt(r.L.tokenOwner, tokenOwner, u)
                      /\ sameAt(r.L.tokenApprovals, tokenApprovals, u)
                /\ r.L.operatorApprovals = operatorApprovals

\* A burn has committed: the token is gone, its key's counter is 0, and
\* an operator approval is still recorded.
C9_Witness ==
    /\ last.op = "burn"
    /\ operatorApprovals # EmptyMap
    /\ DOMAIN tokenOwner \subseteq {0}
    /\ \E k \in DOMAIN ownedTokensCount : ownedTokensCount[k] = 0

(***************************************************************************)
(* C10 - who may burn                                                      *)
(***************************************************************************)

\* The outcome the burn of token t out of key k must have.
burnDecided(k, t) ==
    LET r == burn(Ledger, k, t)
    IN  IF t \in DOMAIN tokenOwner /\ k = tokenOwner[t]
        THEN r.ok
        ELSE ~r.ok /\ After(Ledger, r) = Ledger

\* C10: burn(k, t) succeeds for every caller, whatever its identity and
\* secrets, whenever token t exists and k is its recorded owner key, and
\* fails with no state change when t does not exist or k is another key.
C10_BurnByOwnerKey ==
    \A k \in Fields, t \in TokenIds : burnDecided(k, t)

\* The same for token ids other than 0.
C10_BurnByOwnerKeyOfNonZeroId ==
    \A k \in Fields, t \in TokenIds \ {0} : burnDecided(k, t)

(***************************************************************************)
(* C11 - approving oneself                                                 *)
(***************************************************************************)

\* C11: approve(to, t) fails with no state change whenever `to` is the
\* caller's own identity, for every caller (owner or approved operator
\* included) and every assignment of local and shared secrets.
C11_SelfApproveFails ==
    \A c \in Callers, t \in TokenIds :
        LET r == approve(Ledger, privateState[c], c, c, t)
        IN  ~r.ok /\ After(Ledger, r) = Ledger

\* The same for callers whose own key is the owner key of the token.
C11_SelfApproveByOwnerFails ==
    \A c \in Callers, t \in DOMAIN tokenOwner :
        localKey(c) = tokenOwner[t] =>
            LET r == approve(Ledger, privateState[c], c, c, t)
            IN  ~r.ok /\ After(Ledger, r) = Ledger

(***************************************************************************)
(* C12 - making oneself an operator                                        *)
(***************************************************************************)

\* C12: setApprovalForAll(operator, approved) fails with no state change
\* whenever operator is the caller's own identity, and no reachable state
\* holds an operator-approval entry for a pair whose owner hash key equals
\* its operator hash key.
C12_NoSelfOperator ==
    /\ \A c \in Callers, v \in BOOLEAN :
          LET r == setApprovalForAll(Ledger, privateState[c], c, c, v)
          IN  ~r.ok /\ After(Ledger, r) = Ledger
    /\ \A k \in Fields : pairHash(k, k) \notin DOMAIN operatorApprovals

\* Operator approvals have been recorded, and a caller naming itself as
\* operator is refused.
C12_Witness ==
    /\ last.op = "setApprovalForAll"
    /\ operatorApprovals # EmptyMap
    /\ \E c \in Callers :
          setApprovalForAll(Ledger, privateState[c], c, c, TRUE).err
              = "Cannot set yourself as operator."

(***************************************************************************)
(* C13 - what an operator approval does                                    *)
(***************************************************************************)

\* The operator-approval key setApprovalForAll(op, v) called by c writes.
operatorPair(c, op) == pairHash(localKey(c), sharedKey(c, op))

\* C13: after a successful setApprovalForAll(op, v) by caller c,
\* isApprovedForAll(key of c under c's local secret, key of op under c's
\* shared secret) returns v, whatever was recorded before; isApprovedForAll
\* returns false for every pair without an entry (entries are created by
\* setApprovalForAll only); the call changes the entry of that one pair
\* only and leaves owners, approvals and counters unchanged.
C13_SetApprovalForAllEffects ==
    /\ \A c \in Callers, op \in PublicKeys, v \in BOOLEAN :
          LET r == setApprovalForAll(Ledger, privateState[c], c, op, v)
          IN  r.ok =>
              /\ isApprovedForAll(r.L, localKey(c), sharedKey(c, op)) = v
              /\ r.L.tokenOwner = tokenOwner
              /\ r.L.tokenApprovals = tokenApprovals
              /\ r.L.ownedTokensCount = ownedTokensCount
              /\ \A x \in (DOMAIN operatorApprovals
                              \cup DOMAIN r.L.operatorApprovals)
                          \ {operatorPair(c, op)} :
                    sameAt(r.L.operatorApprovals, operatorApprovals, x)
    /\ \A a \in Fields, b \in Fields :
          pairHash(a, b) \notin DOMAIN operatorApprovals
              => ~isApprovedForAll(Ledger, a, b)

\* A setApprovalForAll has committed; one pair is recorded as approved and
\* another as revoked.
C13_Witness ==
    /\ last.op = "setApprovalForAll"
    /\ \E x \in DOMAIN operatorApprovals : operatorApprovals[x]
    /\ \E x \in DOMAIN operatorApprovals : ~operatorApprovals[x]

(***************************************************************************)
(* C14, C15 - using an approval                                            *)
(***************************************************************************)

\* Caller a has made b an operator: the entry a's setApprovalForAll(b, .)
\* writes is recorded as true.  (Only a call by a with operator b writes
\* that entry, so it is true from a's setApprovalForAll(b, true) until a's
\* setApprovalForAll(b, false).)
isOperatorOf(a, b) ==
    /\ operatorPair(a, b) \in DOMAIN operatorApprovals
    /\ operatorApprovals[operatorPair(a, b)]

\* C14: after owner a successfully calls setApprovalForAll(b, true), a
\* transferFrom(k, x, t) invoked by b with b's own witness secrets succeeds
\* for every existing token t whose owner key k is a's key under a's local
\* secret, until a calls setApprovalForAll(b, false).
C14_OperatorCanTransfer ==
    \A a \in Callers, b \in Callers :
        isOperatorOf(a, b) =>
            \A t \in DOMAIN tokenOwner, x \in Recipients :
                tokenOwner[t] = localKey(a) =>
                    transferFrom(Ledger, privateState[b], b, localKey(a), x, t).ok

\* The same for operators whose local secret is the owner's shared secret,
\* and token ids other than 0.
C14_OperatorWithSharedSecretCanTransfer ==
    \A a \in Callers, b \in Callers :
        isOperatorOf(a, b)
        /\ privateState[b].local_secret = privateState[a].shared_secret =>
            \A t \in DOMAIN tokenOwner \ {0}, x \in Recipients :
                tokenOwner[t] = localKey(a) =>
                    transferFrom(Ledger, privateState[b], b, localKey(a), x, t).ok

\* C15: after the owner o of token t successfully calls approve(b, t), a
\* transferFrom(ownerOf(t), x, t) invoked by b with b's own witness secrets
\* succeeds (here: right after the approval, so neither the owner nor the
\* approval has changed in between).
C15_ApprovedCanTransfer ==
    \A o \in Callers, b \in Callers, t \in DOMAIN tokenOwner :
        LET r == approve(Ledger, privateState[o], o, b, t)
        IN  r.ok /\ localKey(o) = tokenOwner[t] =>
                \A x \in Recipients :
                    transferFrom(r.L, privateState[b], b, tokenOwner[t], x, t).ok

\* The same for approved parties whose local secret is the owner's shared
\* secret.
C15_ApprovedWithSharedSecretCanTransfer ==
    \A o \in Callers, b \in Callers, t \in DOMAIN tokenOwner :
        LET r == approve(Ledger, privateState[o], o, b, t)
        IN  (/\ r.ok
             /\ localKey(o) = tokenOwner[t]
             /\ privateState[b].local_secret = privateState[o].shared_secret) =>
                \A x \in Recipients :
                    transferFrom(r.L, privateState[b], b, tokenOwner[t], x, t).ok

(***************************************************************************)
(* C16 - a failed call changes nothing                                     *)
(***************************************************************************)

\* The call that returned r failed and left the ledger as it was.
unchangedIfFailed(r) == ~r.ok => After(Ledger, r) = Ledger

balanceAnswered(c, id) ==
    LET r == balanceOf(Ledger, privateState[c], c, id)
    IN  /\ r.ok
        /\ r.L = Ledger
        /\ r.val = ownedCount(Ledger, mintKey(c, id))

\* C19 (as claimed): balanceOf(identity) never fails and never changes
\* state; it returns the counter under the caller's own key when identity is
\* the caller and under the key derived with the caller's shared secret
\* otherwise, and 0 when that key has no counter.
C19_BalanceOfNeverFails ==
    \A c \in Callers, id \in PublicKeys : balanceAnswered(c, id)

\* C19 (amended): balanceOf(identity) answers as claimed for every identity
\* other than the default one; for the default identity, and for a caller
\* without a local secret, it fails; it never changes the ledger.
C19_BalanceOfAnswers ==
    /\ \A c \in Callers, id \in PublicKeys \ {0} : balanceAnswered(c, id)
    /\ \A c \in Callers :
          LET r == balanceOf(Ledger, privateState[c], c, 0)
          IN  r.err = "Owner cannot be empty." /\ After(Ledger, r) = Ledger
    /\ \A c \in Callers, id \in PublicKeys \ {0}, sh \in Secrets :
          LET r == balanceOf(Ledger, createNftZkPrivateState(NoSecret, sh), c, id)
          IN  ~r.ok /\ After(Ledger, r) = Ledger

\* A caller whose own key owns a token, who derives for another identity a
\* key that has no counter, and for a third a key with a counter of 1.
C19_Witness ==
    /\ last.op \in {"mint", "transfer", "transferFrom"}
    /\ \E c \in Callers :
          /\ balanceOf(Ledger, privateState[c], c, c).val >= 1
          /\ \E id \in Callers \ {c} :
                /\ sharedKey(c, id) \notin DOMAIN ownedTokensCount
                /\ balanceOf(Ledger, privateState[c], c, id).val = 0
    /\ \E c \in Callers : \E id \in Callers \ {c} :
          balanceOf(Ledger, privateState[c], c, id).val = 1

(***************************************************************************)
(* C20 - the admin contract                                                *)
(***************************************************************************)

\* A call by anyone but the admin fails in mintAdmin and burnAdmin, and no
\* call of the admin contract by anyone but the admin changes the set of
\* existing token ids.
onlyAdminMintsAndBurns ==
    \A c \in Callers \ {contractAdmin}, to \in PublicKeys, t \in TokenIds :
        LET ps == privateState[c]
            m == mintAdmin(Ledger, ps, contractAdmin, c, to, t)
            b == burnAdmin(Ledger, contractAdmin, c, t)
        IN  /\ ~m.ok /\ After(Ledger, m) = Ledger
            /\ ~b.ok /\ After(Ledger, b) = Ledger
            /\ DOMAIN After(Ledger, transfer(Ledger, ps, c, to, t)).tokenOwner
                   = DOMAIN tokenOwner
            /\ DOMAIN After(Ledger, approve(Ledger, ps, c, to, t)).tokenOwner
                   = DOMAIN tokenOwner
            /\ \A k \in Fields :
                  DOMAIN After(Ledger,
                               transferFrom(Ledger, ps, c, k, to, t)).tokenOwner
                      = DOMAIN tokenOwner
            /\ \A v \in BOOLEAN :
                  DOMAIN After(Ledger,
                               setApprovalForAll(Ledger, ps, c, to, v)).tokenOwner
                      = DOMAIN tokenOwner

\* The admin's burnAdmin(t) succeeds and removes t.
adminBurns(t) ==
    LET b == burnAdmin(Ledger, contractAdmin, contractAdmin, t)
    IN  b.ok /\ t \notin DOMAIN b.L.tokenOwner

\* C20: in the admin contract mintAdmin and burnAdmin fail with no state
\* change for every caller other than the deployer recorded in
\* contractAdmin, the set of existing token ids changes only in calls by the
\* admin, and burnAdmin(t) by the admin succeeds for every existing token,
\* whoever owns it.
C20_AdminOnly ==
    /\ onlyAdminMintsAndBurns
    /\ \A t \in DOMAIN tokenOwner : adminBurns(t)

\* The same with burnAdmin claimed for token ids other than 0 only.
C20_AdminOnlyOfNonZeroId ==
    /\ onlyAdminMintsAndBurns
    /\ \A t \in DOMAIN tokenOwner \ {0} : adminBurns(t)

\* contractAdmin never changes after construction.
C20_AdminNeverChanges == [][contractAdmin' = contractAdmin]_vars

(***************************************************************************)
(* C21 - the witness provider                                              *)
(***************************************************************************)

\* The witness call that returned r was asked for the secret held in field
\* value secret of private state ps: it failed exactly when there is none,
\* and otherwise returned that secret and ps itself.
witnessAnswered(r, ps, secret) ==
    /\ ~r.ok <=> secret = NoSecret
    /\ r.ok => r.val = secret /\ r.ps = ps

\* C21: getLocalSecret fails exactly when the private state has no local
\* secret and getSharedSecret fails exactly when the private state has no
\* shared secret; when the requested secret is configured the call returns
\* that secret together with an unchanged private state.
C21_WitnessesFailWhenUnconfigured ==
    \A c \in Callers :
        /\ witnessAnswered(getLocalSecret(privateState[c]),
                           privateState[c], privateState[c].local_secret)
        /\ witnessAnswered(getSharedSecret(privateState[c]),
                           privateState[c], privateState[c].shared_secret)

\* The part of it that is about getLocalSecret, and no witness call changes
\* a private state.
C21_LocalSecretWitness ==
    \A c \in Callers :
        /\ witnessAnswered(getLocalSecret(privateState[c]),
                           privateState[c], privateState[c].local_secret)
        /\ Witnessed(c, getLocalSecret(privateState[c])) = privateState
        /\ Witnessed(c, getSharedSecret(privateState[c])) = privateState

(***************************************************************************)
(* C22 - hash keys                                                         *)
(***************************************************************************)

\* Whatever the ledger holds, a token that caller c mints or transfers to
\* another party `to` is recorded under the one key generateHashKey(to, c's
\* shared secret), and a token c mints to itself under generateHashKey(c,
\* c's local secret).
sameKeyForSameRecipient ==
    \A c \in Callers, to \in Recipients, t \in TokenIds :
        LET m == mint(Ledger, privateState[c], c, to, t)
            x == transfer(Ledger, privateState[c], c, to, t)
        IN  /\ m.ok /\ to # c =>
                  m.L.tokenOwner[t]
                      = generateHashKey(to, privateState[c].shared_secret)
            /\ m.ok /\ to = c =>
                  m.L.tokenOwner[t]
                      = generateHashKey(c, privateState[c].local_secret)
            /\ x.ok =>
                  x.L.tokenOwner[t]
                      = generateHashKey(to, privateState[c].shared_secret)

Nft_mayTransfer(c, t) ==
    /\ t \in DOMAIN tokenOwner
    /\ \/ c = tokenOwner[t]
       \/ t \in DOMAIN tokenApprovals /\ tokenApprovals[t] = c
       \/ /\ pairHash(tokenOwner[t], c) \in DOMAIN operatorApprovals
          /\ operatorApprovals[pairHash(tokenOwner[t], c)]

\* For the token ids in T: an operator b of owner a can transfer every token
\* of a, the party c that a has just approved for t can transfer t, and a
\* caller that is neither owner, approved nor operator fails in transferFrom
\* and leaves the ledger unchanged.
Nft_approvalsAllowTransfer(T) ==
    /\ \A a \in Callers, b \in Callers :
          (/\ pairHash(a, b) \in DOMAIN operatorApprovals
           /\ operatorApprovals[pairHash(a, b)]) =>
              \A t \in DOMAIN tokenOwner \cap T, x \in Recipients :
                  tokenOwner[t] = a =>
                      Nft_transferFrom(Ledger, b, a, x, t).ok
    /\ \A a \in Callers, c \in Callers, t \in DOMAIN tokenOwner \cap T :
          LET r == Nft_approve(Ledger, a, c, t)
          IN  (r.ok /\ tokenOwner[t] = a) =>
                  \A x \in Recipients : Nft_transferFrom(r.L, c, a, x, t).ok
    /\ \A c \in Callers, f \in PublicKeys, x \in PublicKeys, t \in TokenIds :
          ~Nft_mayTransfer(c, t) =>
              LET r == Nft_transferFrom(Ledger, c, f, x, t)
              IN  ~r.ok /\ After(Ledger, r) = Ledger

\* C23: in the public Nft module, after owner A calls setApprovalForAll(B,
\* true), transferFrom(A, X, t) invoked by B succeeds for every token t owned
\* by A; after A calls approve(C, t), transferFrom(A, X, t) invoked by C
\* succeeds; a caller that is neither owner, approved for t, nor an approved
\* operator of the owner always fails with no state change.
C23_NftApprovalsAllowTransfer == Nft_approvalsAllowTransfer(TokenIds)

\* The same with the two successes claimed for token ids other than 0 only.
C23_NftApprovalsAllowTransferOfNonZeroId ==
    Nft_approvalsAllowTransfer(TokenIds \ {0})

(***************************************************************************)
(* C24 - the public Nft module: approving oneself                          *)
(***************************************************************************)

\* C24: in the public Nft module approve(to, t) fails with no state change
\* whenever `to` equals the caller's public key, whether the caller is the
\* owner of t or an approved operator of the owner.
C24_NftSelfApproveFails ==
    \A c \in Callers, t \in TokenIds :
        LET r == Nft_approve(Ledger, c, c, t)
        IN  ~r.ok /\ After(Ledger, r) = Ledger

\* The same for callers that own the token, and for callers that are
\* neither its owner nor an operator of its owner.
C24_NftSelfApproveByOwnerFails ==
    \A c \in Callers, t \in TokenIds :
        (t \in DOMAIN tokenOwner /\ tokenOwner[t] # c
            => ~Nft_isApprovedForAll(Ledger, tokenOwner[t], c)) =>
            LET r == Nft_approve(Ledger, c, c, t)
            IN  ~r.ok /\ After(Ledger, r) = Ledger

(***************************************************************************)
(* C25 - the public Nft module: counters and approvals                     *)
(***************************************************************************)

\* C25: in every reachable state of the public Nft module, for every public
\* key p the counter ownedTokensCount[p] (0 when absent) equals the number
\* of tokens owned by p, every approval entry belongs to an existing token,
\* and every transfer or burn of a token leaves it without an approval
\* entry.
C25_NftCountersAndApprovals ==
    /\ \A p \in PublicKeys \cup DOMAIN ownedTokensCount :
          ownedCount(Ledger, p) = numOwned(Ledger, p)
    /\ DOMAIN tokenApprovals \subseteq DOMAIN tokenOwner
    /\ \A c \in Callers, f \in PublicKeys, to \in PublicKeys, t \in TokenIds :
          /\ Nft_transferFrom(Ledger, c, f, to, t).ok =>
                t \notin DOMAIN Nft_transferFrom(Ledger, c, f, to, t).L.tokenApprovals
          /\ Nft_transfer(Ledger, c, to, t).ok =>
                t \notin DOMAIN Nft_transfer(Ledger, c, to, t).L.tokenApprovals
          /\ Nft_burn(Ledger, f, t).ok =>
                t \notin DOMAIN Nft_burn(Ledger, f, t).L.tokenApprovals

\* One public key owns two tokens and another, whose token was moved away,
\* has a counter of 0; a token has just been approved and can now be
\* transferred by the approved party and be burned.
C25_Witness ==
    /\ last.op = "approve"
    /\ \E p \in DOMAIN ownedTokensCount : ownedTokensCount[p] = 2
    /\ \E p \in DOMAIN ownedTokensCount : ownedTokensCount[p] = 0
    /\ \E t \in DOMAIN tokenApprovals : \E to \in Recipients :
          /\ Nft_transferFrom(Ledger, tokenApprovals[t], tokenOwner[t], to, t).ok
          /\ Nft_burn(Ledger, tokenOwner[t], t).ok

(***************************************************************************)
(* C26 - the life of a token                                               *)
(***************************************************************************)

\* The steps that may change the ownership entry of token t: a mint creates
\* it, a burn deletes it, a transfer or transferFrom replaces its value.
lifecycleStep(t) ==
    /\ (t \notin DOMAIN tokenOwner /\ t \in DOMAIN tokenOwner')
           => last'.op = "mint"
    /\ (t \in DOMAIN tokenOwner /\ t \notin DOMAIN tokenOwner')
           => last'.op = "burn"
    /\ (/\ t \in DOMAIN tokenOwner
        /\ t \in DOMAIN tokenOwner'
        /\ tokenOwner'[t] # tokenOwner[t])
           => last'.op \in {"transfer", "transferFrom"}

\* approve, setApprovalForAll and the queries return the ownership map they
\* were given.
ownershipUntouched ==
    /\ \A c \in Callers, p \in PublicKeys, t \in TokenIds :
          /\ After(Ledger, approve(Ledger, privateState[c], c, p, t)).tokenOwner
                 = tokenOwner
          /\ balanceOf(Ledger, privateState[c], c, p).L = Ledger
          /\ \A v \in BOOLEAN :
                After(Ledger, setApprovalForAll(Ledger, privateState[c], c, p, v))
                    .tokenOwner = tokenOwner
    /\ \A t \in TokenIds :
          /\ ownerOf(Ledger, t).L = Ledger
          /\ getApproved(Ledger, t).L = Ledger

\* A token id without an ownership entry (never minted, or burned) can be
\* minted, and the new token has no approval entry.
mintableWhenAbsent ==
    \A c \in Callers, to \in Recipients, t \in TokenIds \ DOMAIN tokenOwner :
        LET r == mint(Ledger, privateState[c], c, to, t)
        IN  /\ r.ok
            /\ t \in DOMAIN r.L.tokenOwner
            /\ t \notin DOMAIN r.L.tokenApprovals

\* C26: a token goes from Nonexistent to Owned only by a mint step and from
\* Owned to Nonexistent only by a burn step; the value of an existing
\* ownership entry changes only in transfer/transferFrom steps; approve,
\* setApprovalForAll and the queries never change the ownership map; and
\* after a burn of t a later mint of t succeeds and yields a token with no
\* approval entry.
C26_TokenLifecycle ==
    /\ [][\A t \in TokenIds : lifecycleStep(t)]_vars
    /\ [](ownershipUntouched)
    /\ [](mintableWhenAbsent)

\* A burn has just removed a token id from the ledger (a key keeps a counter
\* of 0), and the id can be minted again.
C26_Witness ==
    /\ last.op = "burn"
    /\ \E k \in DOMAIN ownedTokensCount : ownedTokensCount[k] = 0
    /\ \E c \in Callers, t \in TokenIds \ DOMAIN tokenOwner :
          t # 0 /\ mint(Ledger, privateState[c], c, c, t).ok

(***************************************************************************)
(* C27 - who may approve                                                   *)
(***************************************************************************)

\* Caller c is entitled to approve for token t: t exists and c's own key is
\* its owner key or has a true operator entry for (owner key, c's key).
mayApprove(c, t) ==
    /\ t \in DOMAIN tokenOwner
    /\ \/ localKey(c) = tokenOwner[t]
       \/ /\ pairHash(tokenOwner[t], localKey(c)) \in DOMAIN operatorApprovals
          /\ operatorApprovals[pairHash(tokenOwner[t], localKey(c))]

\* Caller c holds the approval of token t and nothing else.
onlyApproved(c, t) ==
    /\ t \in DOMAIN tokenApprovals
    /\ tokenApprovals[t] = localKey(c)
    /\ ~mayApprove(c, t)

\* approve(to, t) for every caller c and argument: it changes the ledger only
\* if c is entitled, fails otherwise, and a failure leaves the approval of t.
approveAuthorized ==
    \A c \in Callers, to \in PublicKeys, t \in TokenIds :
        LET r == approve(Ledger, privateState[c], c, to, t)
        IN  /\ After(Ledger, r) # Ledger => mayApprove(c, t)
            /\ ~mayApprove(c, t) => ~r.ok /\ After(Ledger, r) = Ledger
            /\ onlyApproved(c, t) => ~r.ok
            /\ ~r.ok => sameAt(After(Ledger, r).tokenApprovals, tokenApprovals, t)

\* C27: approve(to, t) changes state only if t exists and the caller's own
\* key equals the owner key of t or has a true operator-approval entry for
\* (owner key, caller key); a caller that only holds the per-token approval
\* for t cannot approve, and every rejected approve leaves the approval
\* entry of t unchanged.
C27_ApproveAuthorized == [](approveAuthorized)

\* An approve has committed; the approved party, which is neither owner nor
\* operator, is refused when it tries to approve in its turn.
C27_Witness ==
    /\ last.op = "approve"
    /\ \E c \in Callers, to \in Callers, t \in DOMAIN tokenApprovals :
          /\ onlyApproved(c, t)
          /\ approve(Ledger, privateState[c], c, to, t).err = "Not authorized."

(***************************************************************************)
(* C28 - the approved key is not the owner key                             *)
(***************************************************************************)

\* C28: in every reachable state, for every token t with an approval entry,
\* the approved hash key stored for t differs from the owner hash key stored
\* for t, for every assignment of local and shared secrets to callers.
C28_ApprovedIsNotOwner ==
    \A t \in DOMAIN tokenApprovals : tokenApprovals[t] # tokenOwner[t]

\* What the check in approve does establish: the key derived from `to` and
\* the caller's local secret is not the owner key.
C28_ApprovedLocalKeyIsNotOwner ==
    \A c \in Callers, to \in PublicKeys, t \in TokenIds :
        approve(Ledger, privateState[c], c, to, t).ok =>
            generateHashKey(to, privateState[c].local_secret) # tokenOwner[t]

(***************************************************************************)
(* C29 - operator approvals and the life of tokens                         *)
(***************************************************************************)

\* The call that returned r leaves every operator-approval entry as it is.
keepsOperators(r) == After(Ledger, r).operatorApprovals = operatorApprovals

\* mint, approve, transfer, transferFrom and burn of the NftZk module, for
\* every caller and argument.
NftZk_keepsOperators ==
    /\ \A c \in Callers, to \in PublicKeys, t \in TokenIds :
          /\ keepsOperators(mint(Ledger, privateState[c], c, to, t))
          /\ keepsOperators(approve(Ledger, privateState[c], c, to, t))
          /\ keepsOperators(transfer(Ledger, privateState[c], c, to, t))
          /\ \A k \in Fields :
                keepsOperators(transferFrom(Ledger, privateState[c], c, k, to, t))
    /\ \A k \in Fields, t \in TokenIds : keepsOperators(burn(Ledger, k, t))

\* The same circuits of the Nft module.
Nft_keepsOperators ==
    /\ \A c \in Callers, to \in PublicKeys, t \in TokenIds :
          /\ keepsOperators(Nft_mint(Ledger, to, t))
          /\ keepsOperators(Nft_approve(Ledger, c, to, t))
          /\ keepsOperators(Nft_transfer(Ledger, c, to, t))
          /\ \A f \in PublicKeys :
                keepsOperators(Nft_transferFrom(Ledger, c, f, to, t))
    /\ \A o \in PublicKeys, t \in TokenIds : keepsOperators(Nft_burn(Ledger, o, t))

\* C29: in the NftZk and Nft modules mint, approve, transfer, transferFrom
\* and burn never create, change or remove an operator-approval entry (only
\* a setApprovalForAll step does), so an operator approval granted by an
\* owner key is still in force after that owner's tokens are transferred
\* away or burned.
C29_OperatorApprovalsPersist ==
    /\ [](NftZkDeployed => NftZk_keepsOperators)
    /\ [](~NftZkDeployed => Nft_keepsOperators)
    /\ [][operatorApprovals' # operatorApprovals
            => last'.op = "setApprovalForAll"]_vars

\* A burn has just removed the last token of an owner key that has granted
\* an operator approval: the key's counter is 0 and the approval is in force.
C29_Witness ==
    /\ last.op = "burn"
    /\ \E a \in Fields \cup PublicKeys, b \in Fields \cup PublicKeys :
          /\ pairHash(a, b) \in DOMAIN operatorApprovals
          /\ operatorApprovals[pairHash(a, b)]
          /\ a \in DOMAIN ownedTokensCount
          /\ ownedTokensCount[a] = 0

(***************************************************************************)
(* C30 - no counter underflow                                              *)
(***************************************************************************)

\* The failures of the decrement in removeTokenFrom: no counter for the key,
\* or a counter of 0.
DecrementErrors == {"lookup: key not found", "decrement: counter underflow"}

\* No counter is negative, the counter of every owner key is at least 1, and
\* no call of removeTokenFrom, burn, transferFrom or transfer fails in the
\* decrement.
noCounterUnderflow ==
    /\ \A k \in DOMAIN ownedTokensCount : ownedTokensCount[k] >= 0
    /\ \A k \in Fields, t \in TokenIds :
          /\ removeTokenFrom(Ledger, k, t).err \notin DecrementErrors
          /\ burn(Ledger, k, t).err \notin DecrementErrors
          /\ (t \in DOMAIN tokenOwner /\ k = tokenOwner[t]) =>
                /\ k \in DOMAIN ownedTokensCount
                /\ ownedTokensCount[k] >= 1
          /\ \A c \in Callers, to \in PublicKeys :
                /\ transferFrom(Ledger, privateState[c], c, k, to, t).err
                       \notin DecrementErrors
                /\ transfer(Ledger, privateState[c], c, to, t).err
                       \notin DecrementErrors

\* C30: the counter-underflow error is unreachable: whenever removeTokenFrom
\* reaches its decrement (in a burn or transferFrom that passed its
\* ownership checks), the counter of fromHashKey exists and is at least 1,
\* so no counter is ever negative.
C30_NoCounterUnderflow == [](noCounterUnderflow)

\* A key whose counter has come down to 0, next to a token whose burn and
\* whose transfer pass the ownership checks and decrement a counter of 1.
C30_Witness ==
    /\ last.op \in {"burn", "transfer", "transferFrom"}
    /\ \E k \in DOMAIN ownedTokensCount : ownedTokensCount[k] = 0
    /\ \E c \in Callers, to \in Recipients, t \in DOMAIN tokenOwner :
          /\ ownedTokensCount[tokenOwner[t]] = 1
          /\ burn(Ledger, tokenOwner[t], t).ok
          /\ transferFrom(Ledger, privateState[c], c, tokenOwner[t], to, t).ok

(***************************************************************************)
(* C31 - two mints of the same token id                                    *)
(***************************************************************************)

\* mint(to1, t) by c1 serialized before mint(to2, t) by c2, from the current
\* ledger: the first succeeds, the second fails, and the ledger after both
\* is the ledger after the first alone.
firstMintWins(c1, to1, c2, to2, t) ==
    LET r1 == mint(Ledger, privateState[c1], c1, to1, t)
        L1 == After(Ledger, r1)
        r2 == mint(L1, privateState[c2], c2, to2, t)
    IN  /\ r1.ok
        /\ ~r2.ok
        /\ After(L1, r2) = L1
        /\ After(L1, r2).tokenOwner[t] = mintKey(c1, to1)
        /\ After(L1, r2).ownedTokensCount[mintKey(c1, to1)]
               = ownedCount(Ledger, mintKey(c1, to1)) + 1

\* C31: when two callers submit mint calls for the same non-existing token
\* id, under either serialization order exactly one succeeds (the first) and
\* the other fails; the final owner key and counters are those produced by
\* the first call alone.
C31_FirstMintWins ==
    [](\A c1 \in Callers, c2 \in Callers, to1 \in Recipients, to2 \in Recipients,
          t \in TokenIds \ DOMAIN tokenOwner :
            /\ firstMintWins(c1, to1, c2, to2, t)
            /\ firstMintWins(c2, to2, c1, to1, t))

\* After a mint, a token id that is still free: the two callers' mints of it
\* would record different owner keys, and whichever comes first wins.
C31_Witness ==
    /\ last.op = "mint"
    /\ \E t \in TokenIds \ DOMAIN tokenOwner :
          /\ mintKey(Alice, Alice) # mintKey(Bob, Bob)
          /\ firstMintWins(Alice, Alice, Bob, Bob, t)
          /\ firstMintWins(Bob, Bob, Alice, Alice, t)
          /\ mint(Ledger, privateState[Alice], Alice, Alice, t).L
                 # mint(Ledger, privateState[Bob], Bob, Bob, t).L

(***************************************************************************)
(* C32 - an approval does not outlive the ownership it was granted under   *)
(***************************************************************************)

\* Caller b can move token t by its approval and by nothing else: b's own
\* key is the approval of t, is not the owner key, and is no operator of it.
approvedOnly(b, t) ==
    /\ t \in DOMAIN tokenApprovals
    /\ tokenApprovals[t] = localKey(b)
    /\ localKey(b) # tokenOwner[t]
    /\ ~isApprovedForAll(Ledger, tokenOwner[t], localKey(b))

\* Every transferFrom of t by b out of key k fails on ledger L.
stale(L, b, k, t) ==
    \A x \in Recipients :
        LET r == transferFrom(L, privateState[b], b, k, x, t)
        IN  ~r.ok /\ After(L, r) = L

\* For the party b approved for t under owner key k: once a transfer of t,
\* a burn of t, or a burn of t followed by a new mint of t has been applied,
\* b's transferFrom(k, x, t) fails, and t has no approval entry.
approvalEndsWithOwnership ==
    \A b \in Callers, t \in DOMAIN tokenApprovals :
        approvedOnly(b, t) =>
            LET k == tokenOwner[t]
                burned == After(Ledger, burn(Ledger, k, t))
            IN  /\ \A c \in Callers, to \in Recipients :
                      LET m == transferFrom(Ledger, privateState[c], c, k, to, t)
                      IN  m.ok => /\ t \notin DOMAIN m.L.tokenApprovals
                                  /\ stale(m.L, b, k, t)
                /\ burn(Ledger, k, t).ok
                /\ t \notin DOMAIN burned.tokenApprovals
                /\ stale(burned, b, k, t)
                /\ \A c \in Callers, to \in Recipients :
                      LET m == mint(burned, privateState[c], c, to, t)
                      IN  /\ m.ok
                          /\ t \notin DOMAIN m.L.tokenApprovals
                          /\ stale(m.L, b, k, t)

operatorOnly(a, b, x, t) ==
    /\ a # b
    /\ t \in DOMAIN tokenOwner
    /\ tokenOwner[t] = localKey(a)
    /\ localKey(x) = sharedKey(a, b)
    /\ localKey(x) # tokenOwner[t]
    /\ ~(t \in DOMAIN tokenApprovals /\ tokenApprovals[t] = localKey(x))

\* On ledger L every transferFrom and every approve of t by x fails.
refused(L, x, t) ==
    \A to \in PublicKeys :
        LET m == transferFrom(L, privateState[x], x, L.tokenOwner[t], to, t)
            p == approve(L, privateState[x], x, to, t)
        IN  /\ ~m.ok /\ After(L, m) = L
            /\ ~p.ok /\ After(L, p) = L

\* From the current ledger: after a's setApprovalForAll(b, false) the calls
\* of x are refused; after a's setApprovalForAll(b, true) that follows, x is
\* authorized again, and its transferFrom succeeds for every token id that
\* transferFrom accepts.
revocationTakesEffect ==
    \A a \in Callers, b \in Callers, x \in Callers, t \in TokenIds :
        operatorOnly(a, b, x, t) =>
            LET off == setApprovalForAll(Ledger, privateState[a], a, b, FALSE)
                on == setApprovalForAll(off.L, privateState[a], a, b, TRUE)
            IN  /\ off.ok
                /\ ~isApprovedForAll(off.L, tokenOwner[t], localKey(x))
                /\ refused(off.L, x, t)
                /\ on.ok
                /\ isApprovedForAll(on.L, tokenOwner[t], localKey(x))
                /\ t # 0 =>
                      \A to \in Recipients :
                          transferFrom(on.L, privateState[x], x,
                                       tokenOwner[t], to, t).ok

\* C33: operator authorization is evaluated against the operator-approval
\* map at the time of the call: after setApprovalForAll(op, false) by the
\* owner, a transferFrom or approve whose only authorization was that
\* operator entry fails, until the owner calls setApprovalForAll(op, true)
\* again.
C33_RevocationTakesEffect == [](revocationTakesEffect)

\* An operator entry has been set and is now recorded as revoked; the former
\* operator is refused as not authorized for a token of the owner.
C33_Witness ==
    /\ last.op = "setApprovalForAll"
    /\ \E a \in Callers, b \in Callers, x \in Callers, t \in DOMAIN tokenOwner :
          /\ operatorOnly(a, b, x, t)
          /\ operatorPair(a, b) \in DOMAIN operatorApprovals
          /\ ~operatorApprovals[operatorPair(a, b)]
          /\ transferFrom(Ledger, privateState[x], x, tokenOwner[t], a, t).err
                 = "Not authorized to transfer."
          /\ approve(Ledger, privateState[x], x, a, t).err = "Not authorized."

(***************************************************************************)
(* C34 - transfer is transferFrom out of the caller's own key              *)
(***************************************************************************)

\* transfer(to, t) by c and transferFrom(c's own key, to, t) by c have the
\* same outcome from the current ledger.
sameAsTransferFrom(c, to, t) ==
    LET a == transfer(Ledger, privateState[c], c, to, t)
        b == transferFrom(Ledger, privateState[c], c, localKey(c), to, t)
    IN  /\ a.ok <=> b.ok
        /\ a.err = b.err
        /\ a.ok => a.L = b.L
        /\ After(Ledger, a) = After(Ledger, b)

\* C34: transfer(to, t) is equivalent to transferFrom(deriveHashKey(caller,
\* callerLocalSecret), to, t): from the same state and caller both succeed
\* or both fail, and on success they produce the same ledger; consequently
\* transfer fails for a caller that is approved or an operator but whose own
\* local key is not the owner key.
C34_TransferIsTransferFrom ==
    [](\A c \in Callers, to \in PublicKeys, t \in TokenIds :
          /\ sameAsTransferFrom(c, to, t)
          /\ (t \in DOMAIN tokenOwner /\ localKey(c) # tokenOwner[t]) =>
                LET a == transfer(Ledger, privateState[c], c, to, t)
                IN  ~a.ok /\ After(Ledger, a) = Ledger)

\* After a transfer by an owner: a caller that is approved for a token, or
\* an operator of its owner, can move it with transferFrom and the owner
\* key, and is refused by transfer.
C34_Witness ==
    /\ last.op = "transfer"
    /\ \E c \in Callers, to \in Recipients, t \in DOMAIN tokenOwner :
          /\ localKey(c) # tokenOwner[t]
          /\ transferFrom(Ledger, privateState[c], c, tokenOwner[t], to, t).ok
          /\ transfer(Ledger, privateState[c], c, to, t).err
                 = "Public key is not the owner."
    /\ \E c \in Callers, to \in Recipients, t \in DOMAIN tokenOwner :
          transfer(Ledger, privateState[c], c, to, t).ok

(***************************************************************************)
(* C35 - a transfer to the caller's own identity                           *)
(***************************************************************************)

\* The balance caller c reads for its own identity from ledger L.
ownBalance(L, c) == balanceOf(L, privateState[c], c, c).val

\* Caller c can no longer act on token t of ledger L as its owner.
lostToken(L, c, t) ==
    /\ localKey(c) # L.tokenOwner[t]
    /\ \A to \in Recipients :
          /\ ~transfer(L, privateState[c], c, to, t).ok
          /\ ~transferFrom(L, privateState[c], c, L.tokenOwner[t], to, t).ok
          /\ ~approve(L, privateState[c], c, to, t).ok

\* Every successful transferFrom records the key derived from the recipient
\* and the caller's shared secret.
recipientKeyIsShared ==
    \A c \in Callers, k \in Fields, to \in PublicKeys, t \in TokenIds :
        LET r == transferFrom(Ledger, privateState[c], c, k, to, t)
        IN  r.ok => r.L.tokenOwner[t] = sharedKey(c, to)

\* The outcome r of a transfer of t by its owner c to c's own identity.
selfTransfer(c, t) == transfer(Ledger, privateState[c], c, c, t)

\* C35 (as stated): transfer/transferFrom always derive the recipient key
\* with the caller's shared secret, also when the recipient is the caller;
\* so when an owner transfers a token to its own identity the owner key
\* becomes deriveHashKey(caller, shared), balanceOf(caller) drops by 1, and
\* (when local and shared secrets differ) the caller is no longer authorized
\* as owner of that token.
C35_SelfTransferDropsBalance ==
    [](/\ recipientKeyIsShared
       /\ \A c \in Callers, t \in DOMAIN tokenOwner :
             (tokenOwner[t] = localKey(c) /\ selfTransfer(c, t).ok) =>
                /\ selfTransfer(c, t).L.tokenOwner[t] = sharedKey(c, c)
                /\ ownBalance(selfTransfer(c, t).L, c) = ownBalance(Ledger, c) - 1
                /\ (localKey(c) # sharedKey(c, c)) =>
                      lostToken(selfTransfer(c, t).L, c, t))

\* C35 (amended): transfer/transferFrom always derive the recipient key
\* with the caller's shared secret, also when the recipient is the caller;
\* so when an owner transfers a token to its own identity the owner key
\* becomes deriveHashKey(caller, shared); when the caller's local and shared
\* secrets differ balanceOf(caller) drops by 1 and the caller is no longer
\* authorized as owner of that token, and when they are equal the owner key
\* and balanceOf(caller) are unchanged.
C35_SelfTransferUsesSharedKey ==
    [](/\ recipientKeyIsShared
       /\ \A c \in Callers, t \in DOMAIN tokenOwner :
             (tokenOwner[t] = localKey(c) /\ selfTransfer(c, t).ok) =>
                /\ selfTransfer(c, t).L.tokenOwner[t] = sharedKey(c, c)
                /\ IF localKey(c) # sharedKey(c, c)
                   THEN /\ ownBalance(selfTransfer(c, t).L, c)
                              = ownBalance(Ledger, c) - 1
                        /\ lostToken(selfTransfer(c, t).L, c, t)
                   ELSE /\ selfTransfer(c, t).L.tokenOwner[t] = tokenOwner[t]
                        /\ ownBalance(selfTransfer(c, t).L, c)
                              = ownBalance(Ledger, c))

\* After Alice transferred token 1 to her own identity with two different
\* secrets: the owner key is her key under her shared secret, her balance
\* reads 0 and her transfer of the token is refused.
C35_Witness ==
    /\ last.op = "transfer"
    /\ privateState = PairedSecrets
    /\ 1 \in DOMAIN tokenOwner
    /\ tokenOwner[1] = sharedKey(Alice, Alice)
    /\ tokenOwner[1] # localKey(Alice)
    /\ ownBalance(Ledger, Alice) = 0
    /\ lostToken(Ledger, Alice, 1)

(***************************************************************************)
(* C36 - tokens held under a shared-secret key                             *)
(***************************************************************************)

\* Token t is owned by the key caller a derives for b with a's shared secret.
heldFor(a, b, t) == t \in DOMAIN tokenOwner /\ tokenOwner[t] = sharedKey(a, b)

\* Some transfer, transferFrom or approve of caller b on token t succeeds.
canActOn(b, t) ==
    \E to \in PublicKeys :
        \/ transfer(Ledger, privateState[b], b, to, t).ok
        \/ approve(Ledger, privateState[b], b, to, t).ok
        \/ \E k \in Fields :
              transferFrom(Ledger, privateState[b], b, k, to, t).ok

\* A true operator entry is recorded for (owner key of t, b's own key).
operatorOfOwner(b, t) ==
    /\ pairHash(tokenOwner[t], localKey(b)) \in DOMAIN operatorApprovals
    /\ operatorApprovals[pairHash(tokenOwner[t], localKey(b))]

\* Every caller's local secret differs from every caller's shared secret.
secretsDisjoint ==
    \A c \in Callers, d \in Callers :
        privateState[c].local_secret # privateState[d].shared_secret

actsOnlyWithMatchingSecret ==
    \A a \in Callers, b \in Callers, t \in TokenIds :
        (heldFor(a, b, t) /\ canActOn(b, t)) =>
            \/ privateState[b].local_secret = privateState[a].shared_secret
            \/ operatorOfOwner(b, t)

\* A step from a state where t is held under a shared-secret key and no
\* local secret is a shared secret keeps the owner of t, or is a burn of t.
staysOrBurns ==
    \A a \in Callers, b \in Callers, t \in TokenIds :
        (heldFor(a, b, t) /\ secretsDisjoint) =>
            \/ t \in DOMAIN tokenOwner' /\ tokenOwner'[t] = tokenOwner[t]
            \/ t \notin DOMAIN tokenOwner' /\ last'.op = "burn"

\* C36: for a token t whose owner key is deriveHashKey(B, s), s being the
\* shared secret of the caller that minted or transferred it to B, the calls
\* transfer, transferFrom and approve on t by B succeed only if B's local
\* secret equals s or a true operator entry exists for (owner key, B's own
\* key); when every caller's local secret differs from every shared secret,
\* the owner of such a token never changes again and the token leaves that
\* state by burn only.
C36_SharedKeyTokensAreStuck ==
    [](actsOnlyWithMatchingSecret) /\ [][staysOrBurns]_vars

\* After Alice minted or transferred token 1 to Bob where both hold the
\* same (local, shared) pair: no call of Bob or Alice on the token succeeds,
\* and burn with the owner key removes it.
C36_Witness ==
    /\ last.op \in {"mint", "transfer"}
    /\ secretsDisjoint
    /\ heldFor(Alice, Bob, 1)
    /\ tokenOwner[1] # localKey(Bob)
    /\ ~canActOn(Bob, 1) /\ ~canActOn(Alice, 1)
    /\ burn(Ledger, tokenOwner[1], 1).ok

(***************************************************************************)
(* C37 - the maps hold derived hash keys only                              *)
(***************************************************************************)

Range(m) == {m[x] : x \in DOMAIN m}

\* The keys ledger L stores: owners, approved keys and counter keys.
storedKeys(L) ==
    Range(L.tokenOwner) \cup Range(L.tokenApprovals) \cup DOMAIN L.ownedTokensCount

\* The secrets the witnesses of the callers return.
heldSecrets ==
    UNION {{privateState[c].local_secret, privateState[c].shared_secret} :
              c \in Callers}

\* The keys derivable from an identity and a held secret.
DerivedKeys == {generateHashKey(p, s) : p \in PublicKeys, s \in heldSecrets}

\* The values a caller passes as a hash key argument: every field a caller
\* can derive, the default field and the callers' identities themselves.
SuppliedKeys == Fields \cup Callers

\* A successful call adds to the stored keys at most the key it derived
\* from its recipient argument and the caller's witness secret; burn and
\* setApprovalForAll add none.
writesDerivedKeysOnly ==
    LET old == storedKeys(Ledger)
    IN  /\ \A c \in Callers, to \in PublicKeys, t \in TokenIds :
              LET ps == privateState[c]
              IN  /\ storedKeys(After(Ledger, mint(Ledger, ps, c, to, t)))
                        \subseteq old \cup {mintKey(c, to)}
                  /\ storedKeys(After(Ledger, transfer(Ledger, ps, c, to, t)))
                        \subseteq old \cup {sharedKey(c, to)}
                  /\ storedKeys(After(Ledger, approve(Ledger, ps, c, to, t)))
                        \subseteq old \cup {sharedKey(c, to)}
                  /\ \A k \in SuppliedKeys :
                        storedKeys(After(Ledger,
                                         transferFrom(Ledger, ps, c, k, to, t)))
                           \subseteq old \cup {sharedKey(c, to)}
        /\ \A c \in Callers, op \in PublicKeys, v \in BOOLEAN :
              storedKeys(After(Ledger, setApprovalForAll(Ledger, privateState[c],
                                                         c, op, v))) = old
        /\ \A k \in SuppliedKeys, t \in TokenIds :
              storedKeys(After(Ledger, burn(Ledger, k, t))) \subseteq old

\* A supplied key that the ledger does not store makes transferFrom and
\* burn fail.
suppliedKeyIsNotWritten ==
    \A k \in SuppliedKeys \ storedKeys(Ledger), t \in TokenIds :
        /\ ~burn(Ledger, k, t).ok
        /\ \A c \in Callers, to \in PublicKeys :
              ~transferFrom(Ledger, privateState[c], c, k, to, t).ok

\* C37: in every reachable state every value of the ownership map, every
\* value of the approval map and every key of the counter map is
\* deriveHashKey(identity, secret) for an identity and a witness secret used
\* in an earlier call (the maps start empty and every call adds at most the
\* key it derives); a hash key supplied directly by a caller (fromHashKey
\* of transferFrom, ownerHashKey of burn) is never written into any map.
C37_StoredKeysAreDerived ==
    [](/\ storedKeys(Ledger) \subseteq DerivedKeys
       /\ writesDerivedKeysOnly
       /\ suppliedKeyIsNotWritten)

\* An approved token in a state where some hash key of a caller is not
\* derivable from the held secrets: that key is refused by burn and
\* transferFrom, the owner key is accepted.
C37_Witness ==
    /\ last.op = "approve"
    /\ 1 \in DOMAIN tokenOwner /\ 1 \in DOMAIN tokenApprovals
    /\ \E k \in HashKeys \ DerivedKeys :
          /\ ~burn(Ledger, k, 1).ok
          /\ \A c \in Callers, to \in Recipients :
                ~transferFrom(Ledger, privateState[c], c, k, to, 1).ok
    /\ burn(Ledger, tokenOwner[1], 1).ok
    /\ \E c \in Callers, to \in Recipients :
          /\ transferFrom(Ledger, privateState[c], c, tokenOwner[1], to, 1).ok
          /\ sharedKey(c, to) # tokenOwner[1]

(***************************************************************************)
(* C38 - the in-memory NftSimulator                                        *)
(***************************************************************************)

\* C38 (balances): after any sequence of mint, transferFrom and burn calls
\* of the NftSimulator, including transferFrom(from, to, t) with from equal
\* to to, balanceOf(p) equals the number of tokens whose owner is p, for
\* every p.
C38_SimulatorBalanceMatchesOwnership ==
    \A p \in Callers :
        NftSimulator_balanceOf(ledgerState, p).val = numOwned(ledgerState, p)

\* A step keeps balanceOf(p) equal to the number of tokens of p, for every
\* p, unless it is a transferFrom whose from is its to (the owner of its
\* token is unchanged and the token keeps existing).
C38_OnlySelfTransferBreaksBalance ==
    [][C38_SimulatorBalanceMatchesOwnership =>
         \/ \A p \in Callers :
                getOrZero(ownedTokensCount', p)
                   = Cardinality({t \in DOMAIN tokenOwner' : tokenOwner'[t] = p})
         \/ /\ last'.op = "transferFrom"
            /\ tokenOwner' = tokenOwner]_vars

\* C38 (ids): mint returns the ids 1, 2, 3, ... in this order: the id a
\* mint returns is the counter, every existing token has a smaller id than
\* the counter, and the counter grows by one at each mint and never
\* otherwise, so an id is not handed out again after a burn.
C38_SimulatorIdsNeverReused ==
    /\ [](\A t \in DOMAIN tokenOwner : 1 <= t /\ t < currentTokenId)
    /\ [][IF (last' # last /\ last'.op = "mint") \/ currentTokenId' # currentTokenId
          THEN /\ last'.op = "mint"
               /\ last'.val = currentTokenId
               /\ currentTokenId' = currentTokenId + 1
               /\ currentTokenId \notin DOMAIN tokenOwner
               /\ currentTokenId \in DOMAIN tokenOwner'
          ELSE currentTokenId' = currentTokenId]_vars

\* After burn of token 1 and a second mint: the new token has id 2 and id 1
\* stays unused.
C38_Witness ==
    /\ last = [op |-> "mint", val |-> 2]
    /\ DOMAIN tokenOwner = {2}
    /\ currentTokenId = 3

(***************************************************************************)
(* C39 - queries change nothing                                            *)
(***************************************************************************)

\* The ledger a query circuit hands back, returning or failing, is the
\* ledger it was called on, and a witness hands back the private state it
\* was called with.
queriesWriteNothing ==
    /\ \A c \in Callers, owner \in PublicKeys :
          balanceOf(Ledger, privateState[c], c, owner).L = Ledger
    /\ \A t \in TokenIds :
          /\ ownerOf(Ledger, t).L = Ledger
          /\ getApproved(Ledger, t).L = Ledger
    /\ \A c \in Callers :
          /\ getLocalSecret(privateState[c]).ok
                => getLocalSecret(privateState[c]).ps = privateState[c]
          /\ getSharedSecret(privateState[c]).ok
                => getSharedSecret(privateState[c]).ps = privateState[c]

\* A step after which the last returned call is a query has left the four
\* maps and the private states as they were.
queryKeepsState ==
    last'.op \in QueryNames =>
        UNCHANGED <<tokenOwner, tokenApprovals, ownedTokensCount,
                    operatorApprovals, privateState>>

\* C39: the queries balanceOf, ownerOf, tokenExists, getApproved and
\* isApprovedForAll leave all four ledger maps and the caller's private
\* state unchanged, whether they return a value or fail; queries called
\* between other operations leave the state those operations run on, and
\* so their outcomes, unchanged.
C39_QueriesChangeNothing ==
    [](queriesWriteNothing) /\ [][queryKeepsState]_vars

\* After a query returned on a ledger with a token: balanceOf answers 1
\* for its owner, ownerOf and getApproved of other ids fail, and the owner's
\* transfer still succeeds.
C39_Witness ==
    /\ last.op \in QueryNames
    /\ 1 \in DOMAIN tokenOwner
    /\ ~getApproved(Ledger, 1).ok
    /\ ~ownerOf(Ledger, 0).ok
    /\ \E c \in Callers :
          /\ balanceOf(Ledger, privateState[c], c, c).val = 1
          /\ \E to \in Recipients :
                transfer(Ledger, privateState[c], c, to, 1).ok

====
